---------------------------- MODULE Spec2Model ----------------------------
(***************************************************************************)
(* Temporal4DFlowNet: the temporal resampling routines                     *)
(* (src/src/temporal_downsampling.py, src/src/utils/evaluate_utils.py),    *)
(* the HDF5 key/value helpers and the __main__ of temporal_downsampling.py,*)
(* the all-axis predictor script                                           *)
(* (src/src/predictor_temporal_all_axis.py) with the patch pipeline of one *)
(* of its rows, and the relative-error metrics of evaluate_utils.py.       *)
(*                                                                         *)
(* Arrays.  A 4D array (time, x, y, z) is modelled by its number of        *)
(* dimensions and the sequence of its frames along axis 0.  Every routine  *)
(* modelled here treats the three spatial axes element-wise, so a frame is *)
(* represented by the value of one voxel.  Computed frames are exact       *)
(* rationals <<numerator, denominator>>; numpy's floating-point rounding   *)
(* of the quotient is not modelled.                                        *)
(***************************************************************************)
EXTENDS Integers, Sequences, FiniteSets, TLC

(***************************************************************************)
(* Bounds of the model.                                                    *)
(***************************************************************************)
MaxT == 9          \* longest time axis of an input array
MaxFactor == 3     \* largest sampling factor
MaxRadius == 5     \* largest averaging radius
MaxBase == 2       \* number of kernel sharpness settings (sigma)
MaxDim == 2        \* largest extent of an axis of the predictor's input volume
MaxSide == 4       \* largest extent of an axis of a patchified frame
MaxPatchSize == 2  \* largest patch size of the patch generator
MaxErrFrames == 2  \* most frames of the fields given to the error metrics
MaxVoxels == 2     \* most voxels followed in a frame by the error metrics

VARIABLES
    call,        \* resampler: the routine being called and its arguments
    rpc,         \* resampler: position inside the routine
    hr_avg,      \* resampler: the routine's output buffer (frames, rationals)
    loop,        \* resampler: loop indices and locals (extension lengths L, R;
                 \* den, the sum line 106 divides the weights by)
    weighting,   \* box kernel: weights on the extended time axis (numerators)
    result,      \* resampler: what the call returned or raised
    snap,        \* resampler: the call and its result as they were before the
                 \* caller wrote into the returned array (history)
    fs,          \* store: the HDF5 files, by path
    fs0,         \* store: the files when the program started (history)
    pre,         \* store: the files before the latest call (history)
    todo,        \* store: the calls the program still has to make
    ran,         \* store: the calls made so far (history)
    status,      \* store: "running", "exited" or the error raised
    cfg,         \* predictor: what a run finds (input shape, dataset scalars,
                 \* the network's behaviour, whether the output file exists)
    epc,         \* predictor: position in the script, or how the run ended
    eloop,       \* predictor: the loop indices (dataset, axis a, nrow) and the rows written in this pass
    volume,      \* predictor: the per-axis volume, by <<i, t, x, y, z>>
    combined,    \* predictor: u_combined, v_combined, w_combined, by <<i, t, x, y, z>>
    outputs,     \* predictor: the datasets saved to the output file, by key
    frame,       \* patches: the row being reconstructed (shape of dataset.u,
                 \* patch size, overlap, the network's behaviour)
    pgen,        \* patches: the patch generator's grid nr_x, nr_y, nr_z and the
                 \* grid handed to _patchup_with_overlap (history)
    ppc,         \* patches: position in the row's pipeline
    velocities,  \* patches: the patches of one channel, velocities[0]
    results,     \* patches: the predicted patches
    bloop,       \* patches: the batch loop's current_idx and the index ranges
                 \* <<first, count>> the network was invoked on (history)
    v_patchup,   \* patches: the stitched volume, by <<x, y, z>>, as <<sum, count>>
    mcall,       \* metrics: the function called and its arguments
    mres         \* metrics: its intermediate array and what it returned

resamplerVars == <<call, rpc, hr_avg, loop, weighting, result, snap>>
storeVars == <<fs, fs0, pre, todo, ran, status>>
predictorVars == <<cfg, epc, eloop, volume, combined, outputs>>
patchVars == <<frame, pgen, ppc, velocities, results, bloop, v_patchup>>
metricVars == <<mcall, mres>>
vars == <<resamplerVars, storeVars, predictorVars, patchVars, metricVars>>
outsideResampler == <<storeVars, predictorVars, patchVars, metricVars>>
outsideStore == <<resamplerVars, predictorVars, patchVars, metricVars>>
outsidePredictor == <<resamplerVars, storeVars, patchVars, metricVars>>
outsidePatches == <<resamplerVars, storeVars, predictorVars, metricVars>>
outsideMetrics == <<resamplerVars, storeVars, predictorVars, patchVars>>

(***************************************************************************)
(* Helpers: Python / numpy semantics.                                      *)
(***************************************************************************)
Min(a, b) == IF a < b THEN a ELSE b
Max(a, b) == IF a > b THEN a ELSE b

\* ceil(a / b) for b > 0
CeilDiv(a, b) == IF a % b = 0 THEN a \div b ELSE (a \div b) + 1

RECURSIVE SeqSum(_)
SeqSum(s) == IF s = <<>> THEN 0 ELSE Head(s) + SeqSum(Tail(s))

\* number of elements of the Python slice [start::step] of a length-n axis,
\* step >= 1 (slice.indices: a negative start counts from the end, then clips)
SliceStart(start, n) == IF start < 0 THEN Max(start + n, 0) ELSE Min(start, n)
SliceCount(start, step, n) == CeilDiv(n - SliceStart(start, n), step)

\* 0-based source indices selected by [start::step]
SliceIndices(start, step, n) ==
    [k \in 1..SliceCount(start, step, n) |-> SliceStart(start, n) + (k - 1) * step]

\* a[i] with Python's negative indexing on an axis of length n: the 0-based
\* position read, or -1 when numpy raises IndexError
PyIndex(i, n) == IF 0 <= i /\ i < n THEN i
                 ELSE IF -n <= i /\ i < 0 THEN i + n
                 ELSE -1

(***************************************************************************)
(* Input arrays.  The routines are linear in the frame values, so the      *)
(* inputs are the unit impulses, a ramp (all frames distinct) and a        *)
(* constant sequence, of every length up to MaxT.                          *)
(***************************************************************************)
Impulse(T, p) == [k \in 1..T |-> IF k = p THEN 1 ELSE 0]
Ramp(T) == [k \in 1..T |-> k]
Const(T) == [k \in 1..T |-> 1]
Frames(T) == {Impulse(T, p) : p \in 1..T} \cup {Ramp(T), Const(T)}

NoResult == [kind |-> "none", frames |-> <<>>, idx |-> <<>>]
Raised(e) == [kind |-> e, frames |-> <<>>, idx |-> <<>>]
\* a freshly allocated array
Array(fr) == [kind |-> "array", frames |-> fr, idx |-> <<>>]
\* a numpy view: frames of the input, idx the 0-based input positions it aliases
View(hr, ix) == [kind |-> "view", frames |-> [k \in 1..Len(ix) |-> <<hr[ix[k] + 1], 1>>],
                 idx |-> ix]

Zeros(T) == [k \in 1..T |-> <<0, 1>>]

(***************************************************************************)
(* Calls.  fn names the routine; the other fields are its arguments (a     *)
(* field a routine does not take is 0 / FALSE).                            *)
(*   ndim, hr : the input array (lr for the interpolation baselines).  A   *)
(*              3D array is one spatial block (a single frame), a 5D array *)
(*              has one extra trailing axis after (t, x, y, z).            *)
(*   n        : sampling_factor / radius                                   *)
(*   offset   : offset of cartesian_temporal_downsampling                  *)
(*   base     : kernel sharpness of the box function (stands for sigma)    *)
(*   roundL/R : whether floating-point rounding makes np.arange yield one  *)
(*              more element when (stop - start) / step is a whole number  *)
(*   hr_T     : hr_shape[0] of the interpolation baselines                 *)
(***************************************************************************)
Arrays4 == UNION {{[ndim |-> 4, hr |-> f] : f \in Frames(T)} : T \in 1..MaxT}
ArraysOther == {[ndim |-> 3, hr |-> <<2>>], [ndim |-> 5, hr |-> Ramp(2)]}
Arrays == Arrays4 \cup ArraysOther

MkCall(f, a, n, off, b, rl, rr, ht) ==
    [fn |-> f, ndim |-> a.ndim, hr |-> a.hr, n |-> n, offset |-> off,
     base |-> b, roundL |-> rl, roundR |-> rr, hr_T |-> ht]

CartesianCalls ==
    {MkCall("cartesian", a, n, off, 0, FALSE, FALSE, 0) :
        a \in Arrays, n \in 0..MaxFactor, off \in -1..MaxT}
AveragingCalls ==
    {MkCall("averaging", a, r, 0, 0, FALSE, FALSE, 0) : a \in Arrays, r \in 0..MaxRadius}
BoxCalls ==
    {MkCall("box", a, 0, 0, b, rl, rr, 0) :
        a \in Arrays, b \in 1..MaxBase, rl \in BOOLEAN, rr \in BOOLEAN}
\* the grid interpolator needs two samples per axis: lr has at least 2 frames
InterpCalls ==
    {MkCall(f, a, 0, 0, 0, FALSE, FALSE, ht) :
        f \in {"linear", "NN", "cubic"},
        a \in {b \in Arrays : b.ndim # 4 \/ Len(b.hr) >= 2}, ht \in 1..(2 * MaxT)}
InterpNpCalls ==
    {MkCall("linear_np", a, 0, 0, 0, FALSE, FALSE, ht) : a \in Arrays, ht \in 1..(2 * MaxT)}
\* create_temporal_mask(mask, n_frames): hr is the mask (a 3D mask is one
\* block, 0 or 1 at the voxel followed), n is n_frames
MaskArrays == {[ndim |-> 3, hr |-> <<m>>] : m \in {0, 1}} \cup {[ndim |-> 4, hr |-> <<1, 0>>]}
MaskCalls ==
    {MkCall("mask", a, n, 0, 0, FALSE, FALSE, 0) : a \in MaskArrays, n \in 0..MaxFactor}
\* calculate_temporal_derivative(data, timestep): hr is data, n is timestep
DerivativeCalls ==
    {MkCall("derivative", a, n, 0, 0, FALSE, FALSE, 0) : a \in Arrays4, n \in 1..MaxFactor}

Calls == CartesianCalls \cup AveragingCalls \cup BoxCalls \cup InterpCalls \cup InterpNpCalls
         \cup MaskCalls \cup DerivativeCalls

NoLoop == [t |-> 0, i |-> 0, L |-> 0, R |-> 0, den |-> 1]
NoSnap == [hr |-> <<>>, frames |-> <<>>, k |-> 0]

InitResampler ==
    /\ call \in Calls
    /\ rpc = "enter"
    /\ hr_avg = <<>>
    /\ loop = NoLoop
    /\ weighting = <<>>
    /\ result = NoResult
    /\ snap = NoSnap

NFrames == Len(call.hr)    \* hr.shape[0]

(***************************************************************************)
(* cartesian_temporal_downsampling(hr, sampling_factor, offset)            *)
(***************************************************************************)
\* (variant: the offset is dropped, hr[::sampling_factor])
CartesianResult_NoOffset(c) ==
    IF c.ndim # 4 \/ c.n < 1
    THEN Raised("AssertionError")
    ELSE View(c.hr, SliceIndices(0, c.n, Len(c.hr)))

CartesianResult(c) ==
    IF c.ndim # 4 \/ c.n < 1
    THEN Raised("AssertionError")
    ELSE View(c.hr, SliceIndices(c.offset, c.n, Len(c.hr)))

CartesianDownsampling ==
    /\ rpc = "enter" /\ call.fn = "cartesian"
    /\ result' = CartesianResult(call)
    /\ rpc' = "done"
    /\ UNCHANGED <<call, hr_avg, loop, weighting, snap, outsideResampler>>

(***************************************************************************)
(* temporal_averaging(hr, radius)                                          *)
(***************************************************************************)
\* Python's range(t - radius//2, t + radius//2 + 1): first and last value of i
WindowFirst(t, radius) == t - (radius \div 2)
WindowLast(t, radius) == t + (radius \div 2)

\* lines 42-43: the index used after the periodic wrap
WrapIndex(i, T) == IF i >= T THEN i % T ELSE i

AveragingEnter ==
    /\ rpc = "enter" /\ call.fn = "averaging"
    /\ IF call.ndim # 4 \/ call.n < 1
       THEN /\ result' = Raised("AssertionError")
            /\ rpc' = "done"
            /\ UNCHANGED <<hr_avg, loop>>
       ELSE /\ hr_avg' = Zeros(NFrames)                         \* np.zeros_like(hr)
            /\ loop' = [NoLoop EXCEPT !.t = 0, !.i = WindowFirst(0, call.n)]
            /\ rpc' = "avg_loop"
            /\ UNCHANGED result
    /\ UNCHANGED <<call, weighting, snap, outsideResampler>>

\* the frame line 46 adds to the buffer: frame pos of hr_avg itself (the
\* right-hand side reads the output buffer, not the input hr)
AddedFrame(buf, hr, pos) == buf[pos + 1]

\* line 46, hr_avg += np.asarray(hr_avg[i]): the 3D frame is broadcast over
\* axis 0, so it is added to every frame of the buffer
AddToBuffer(buf, fr) == [k \in 1..Len(buf) |-> <<buf[k][1] + fr[1], 1>>]

\* one iteration of the inner loop (lines 39-46), then the loop bookkeeping
AveragingStep ==
    /\ rpc = "avg_loop"
    /\ LET T == NFrames
           pos == PyIndex(WrapIndex(loop.i, T), T)
       IN IF pos < 0
          THEN /\ result' = Raised("IndexError")
               /\ rpc' = "done"
               /\ UNCHANGED <<hr_avg, loop>>
          ELSE /\ hr_avg' = AddToBuffer(hr_avg, AddedFrame(hr_avg, call.hr, pos))
               /\ UNCHANGED result
               /\ IF loop.i < WindowLast(loop.t, call.n)
                  THEN /\ loop' = [loop EXCEPT !.i = loop.i + 1]
                       /\ rpc' = "avg_loop"
                  ELSE IF loop.t + 1 < T
                  THEN /\ loop' = [loop EXCEPT !.t = loop.t + 1,
                                               !.i = WindowFirst(loop.t + 1, call.n)]
                       /\ rpc' = "avg_loop"
                  ELSE /\ loop' = loop
                       /\ rpc' = "avg_divide"
    /\ UNCHANGED <<call, weighting, snap, outsideResampler>>

\* lines 49-51: hr_avg /= radius; return hr_avg
DivideBuffer(buf, radius) == [k \in 1..Len(buf) |-> <<buf[k][1], buf[k][2] * radius>>]

AveragingDivide ==
    /\ rpc = "avg_divide"
    /\ hr_avg' = DivideBuffer(hr_avg, call.n)
    /\ result' = Array(hr_avg')
    /\ rpc' = "done"
    /\ UNCHANGED <<call, loop, weighting, snap, outsideResampler>>

(***************************************************************************)
(* temporal_smoothing_box_function_toeger(hr, t_range, sigma)              *)
(*                                                                         *)
(* t_range is a uniform grid with one sample per frame of hr:              *)
(* t_range[k] = start_t + k*dt.  Times are counted in units of dt/4, so    *)
(* len_t/4 = (T-1) units and dt = 4 units.                                 *)
(***************************************************************************)
\* len(np.arange(start, stop, step)) = ceil((stop - start) / step), at least 0.
\* span is (stop - start) in the direction of step, step > 0.  When the
\* quotient is a whole number its floating-point value may lie just above it:
\* then (roundUp) the array has one more element.
ArangeLen(span, step, roundUp) ==
    IF span < 0 THEN 0
    ELSE IF span % step = 0 THEN (span \div step) + (IF roundUp THEN 1 ELSE 0)
    ELSE CeilDiv(span, step)

\* line 73-74: arange(start_t, start_t - len_t/4, -dt)[::-1][:-1]
LeftExtensionLen(T, roundUp) == Max(ArangeLen(T - 1, 4, roundUp) - 1, 0)
\* line 75: arange(end_t + dt, end_t + len_t/4, dt)
RightExtensionLen(T, roundUp) == ArangeLen((T - 1) - 4, 4, roundUp)

\* (variant: the left extension is never trimmed)
TrimmedLeft_NoTrim(l, r) == l

\* lines 78-81: drop one element from the longer side
TrimmedLeft(l, r) == IF r > l THEN l ELSE IF r < l THEN l - 1 ELSE l
TrimmedRight(l, r) == IF r > l THEN r - 1 ELSE r

\* base^e
RECURSIVE Pow(_, _)
Pow(b, e) == IF e = 0 THEN 1 ELSE b * Pow(b, e - 1)

\* smoothed_box_fct(t, t0, dt, sigma): the kernel is even in t - t0 and
\* decreases with |t - t0|.  Its values on the uniform extended axis are
\* represented by the integers base^(D - d), d = |t - t0| / dt, D the largest
\* distance on the axis; only their ratios matter, as line 106 normalises.
\* base = 1 is the flat limit (sigma large), a larger base a sharper box.
SmoothedBoxFct(d, D, base) == Pow(base, D - d)

Abs(x) == IF x < 0 THEN -x ELSE x

\* line 103: the weights over t_range_extended for output frame i (0-based);
\* t0 sits at extended position L + i
KernelWeights(i, T, L, R, base) ==
    [j \in 1..(L + T + R) |-> SmoothedBoxFct(Abs((j - 1) - (L + i)), L + T + R - 1, base)]

BoxEnter ==
    /\ rpc = "enter" /\ call.fn = "box"
    /\ IF call.ndim # 4
       THEN /\ result' = Raised("AssertionError")              \* line 63
            /\ rpc' = "done"
            /\ UNCHANGED <<hr_avg, loop>>
       ELSE IF NFrames < 2
       THEN /\ result' = Raised("IndexError")                  \* line 69: t_range[1]
            /\ rpc' = "done"
            /\ UNCHANGED <<hr_avg, loop>>
       ELSE LET l == LeftExtensionLen(NFrames, call.roundL)
                r == RightExtensionLen(NFrames, call.roundR)
            IN /\ hr_avg' = Zeros(NFrames)                     \* line 68
               /\ loop' = [NoLoop EXCEPT !.i = 0, !.L = TrimmedLeft(l, r),
                                         !.R = TrimmedRight(l, r)]
               /\ rpc' = "box_weights"
               /\ UNCHANGED result
    /\ UNCHANGED <<call, weighting, snap, outsideResampler>>

\* lines 103-106: the kernel over the extended axis, normalised.  The state
\* keeps the numerators; the common denominator is their sum before the fold,
\* loop.den (line 106, weighting /= np.sum(weighting)).
BoxWeights ==
    /\ rpc = "box_weights"
    /\ weighting' = KernelWeights(loop.i, NFrames, loop.L, loop.R, call.base)
    /\ loop' = [loop EXCEPT !.den = SeqSum(weighting')]
    /\ rpc' = "box_fold_right"
    /\ UNCHANGED <<call, hr_avg, result, snap, outsideResampler>>

\* Python slices of a length-n axis as <<first, count>> (0-based first):
\* a[:k], a[-k:] for k >= 0.  -0 is 0, so a[-0:] is the whole axis.
HeadSlice(k, n) == <<0, Min(k, n)>>
TailSlice(k, n) == IF k = 0 THEN <<0, n>> ELSE <<Max(n - k, 0), Min(k, n)>>

\* a += b on 1-D arrays: b must have a's length or length 1
CanAddInPlace(lenA, lenB) == lenB = lenA \/ lenB = 1

\* dst[dstFirst:dstFirst+cnt] += src[srcFirst: ...] inside one array w (0-based
\* positions); the right-hand side is read before anything is written
AddSegment(w, dstFirst, cnt, srcFirst, srcCnt) ==
    [j \in 1..Len(w) |->
        IF dstFirst < j /\ j <= dstFirst + cnt
        THEN w[j] + w[srcFirst + (IF srcCnt = 1 THEN 1 ELSE j - dstFirst)]
        ELSE w[j]]

\* line 110: periodic_weighting is the slice weighting[L : L+T], a view
PeriodicWeighting == SubSeq(weighting, loop.L + 1, loop.L + NFrames)

\* (variant: the left extension is added where the right one belongs)
FoldRight_FromLeft(w, T, L, R) ==
    LET dst == HeadSlice(R, T)
        src == HeadSlice(R, Len(w))
    IN AddSegment(w, L + dst[1], dst[2], src[1], src[2])

\* line 111: periodic_weighting[:R] += weighting[-R:]
FoldRight(w, T, L, R) ==
    LET dst == HeadSlice(R, T)
        src == TailSlice(R, Len(w))
    IN AddSegment(w, L + dst[1], dst[2], src[1], src[2])
FoldRightOk(w, T, R) == CanAddInPlace(HeadSlice(R, T)[2], TailSlice(R, Len(w))[2])

BoxFoldRight ==
    /\ rpc = "box_fold_right"
    /\ IF FoldRightOk(weighting, NFrames, loop.R)
       THEN /\ weighting' = FoldRight(weighting, NFrames, loop.L, loop.R)
            /\ rpc' = "box_fold_left"
            /\ UNCHANGED result
       ELSE /\ result' = Raised("ValueError")     \* operands could not be broadcast
            /\ rpc' = "done"
            /\ UNCHANGED weighting
    /\ UNCHANGED <<call, hr_avg, loop, snap, outsideResampler>>

\* (variant: the left extension is added onto the first L frames)
FoldLeft_OntoHead(w, T, L) ==
    LET dst == HeadSlice(L, T)
        src == HeadSlice(L, Len(w))
    IN AddSegment(w, L + dst[1], dst[2], src[1], src[2])

\* (variant: the addend is taken from the view, whose head the first
\* addition has already changed)
FoldLeft_FromView(w, T, L) ==
    LET dst == TailSlice(L, T)
        src == HeadSlice(L, T)
    IN AddSegment(w, L + dst[1], dst[2], L + src[1], src[2])

\* line 112: periodic_weighting[-L:] += weighting[:L]
FoldLeft(w, T, L) ==
    LET dst == TailSlice(L, T)
        src == HeadSlice(L, Len(w))
    IN AddSegment(w, L + dst[1], dst[2], src[1], src[2])
FoldLeftOk(w, T, L) == CanAddInPlace(TailSlice(L, T)[2], HeadSlice(L, Len(w))[2])

BoxFoldLeft ==
    /\ rpc = "box_fold_left"
    /\ IF FoldLeftOk(weighting, NFrames, loop.L)
       THEN /\ weighting' = FoldLeft(weighting, NFrames, loop.L)
            /\ rpc' = "box_sum"
            /\ UNCHANGED result
       ELSE /\ result' = Raised("ValueError")
            /\ rpc' = "done"
            /\ UNCHANGED weighting
    /\ UNCHANGED <<call, hr_avg, loop, snap, outsideResampler>>

\* line 120: hr_avg[i] = np.sum(hr * periodic_weighting[:, None, None, None], axis=0)
WeightedSum(hr, pw) == SeqSum([k \in 1..Len(hr) |-> hr[k] * pw[k]])

BoxSum ==
    /\ rpc = "box_sum"
    /\ hr_avg' = [hr_avg EXCEPT ![loop.i + 1] =
                     <<WeightedSum(call.hr, PeriodicWeighting), loop.den>>]
    /\ IF loop.i + 1 < NFrames
       THEN /\ loop' = [loop EXCEPT !.i = loop.i + 1]
            /\ rpc' = "box_weights"
            /\ UNCHANGED result
       ELSE /\ loop' = loop
            /\ result' = Array(hr_avg')                        \* line 124
            /\ rpc' = "done"
    /\ UNCHANGED <<call, weighting, snap, outsideResampler>>

(***************************************************************************)
(* Interpolation baselines (evaluate_utils.py).                            *)
(* temporal_linear_interpolation / temporal_NN_interpolation /             *)
(* temporal_cubic_interpolation build a RegularGridInterpolator over       *)
(* (t_lr, x_lr, y_lr, z_lr) and evaluate it on                             *)
(* t_hr = np.linspace(0, n - 0.5, hr_shape[0]), n = lr.shape[0], with      *)
(* bounds_error=False, fill_value=0.  Output time j is                     *)
(* TimeNum(j) / TimeDen, an exact rational.                                *)
(***************************************************************************)
TimeDen(hrT) == IF hrT = 1 THEN 1 ELSE 2 * (hrT - 1)
TimeNum(j, n, hrT) == IF hrT = 1 THEN 0 ELSE j * (2 * n - 1)

\* a value the model does not compute (a cubic spline between two samples)
Unmodelled == <<0, 0>>

\* (variant: a time beyond the last sample takes the last sample's value)
GridInterpolate_Extrapolate(method, lr, j, hrT) ==
    LET n == Len(lr)
        Q == TimeDen(hrT)
        P == Min(TimeNum(j, n, hrT), (n - 1) * Q)
        i == Min(P \div Q, n - 2)
        r == P - i * Q
    IN IF method = "linear" THEN <<(Q - r) * lr[i + 1] + r * lr[i + 2], Q>>
       ELSE IF method = "NN" THEN (IF 2 * r <= Q THEN <<lr[i + 1], 1>> ELSE <<lr[i + 2], 1>>)
       ELSE IF r = 0 THEN <<lr[i + 1], 1>>
       ELSE IF r = Q THEN <<lr[i + 2], 1>>
       ELSE Unmodelled

\* the interpolator's value at output index j (0-based)
GridInterpolate(method, lr, j, hrT) ==
    LET n == Len(lr)
        Q == TimeDen(hrT)
        P == TimeNum(j, n, hrT)
        i == Min(P \div Q, n - 2)          \* interval [i, i+1] holding the time
        r == P - i * Q                     \* offset inside it, in units of 1/Q
    IN IF P > (n - 1) * Q THEN <<0, 1>>    \* beyond the last sample: fill_value
       ELSE IF method = "linear" THEN <<(Q - r) * lr[i + 1] + r * lr[i + 2], Q>>
       ELSE IF method = "NN" THEN (IF 2 * r <= Q THEN <<lr[i + 1], 1>> ELSE <<lr[i + 2], 1>>)
       ELSE IF r = 0 THEN <<lr[i + 1], 1>>
       ELSE IF r = Q THEN <<lr[i + 2], 1>>
       ELSE Unmodelled

\* lines 921-924 read lr.shape[0..3]: a 3D lr raises IndexError.  A lr with
\* more than four axes is accepted by the interpolator (values may carry
\* trailing axes).  The cubic method needs four samples per axis.
InterpolationResult(c) ==
    IF c.ndim < 4 THEN Raised("IndexError")
    ELSE IF c.fn = "cubic" /\ Len(c.hr) < 4 THEN Raised("ValueError")
    ELSE Array([k \in 1..c.hr_T |-> GridInterpolate(c.fn, c.hr, k - 1, c.hr_T)])

TemporalInterpolation ==
    /\ rpc = "enter" /\ call.fn \in {"linear", "NN", "cubic"}
    /\ result' = InterpolationResult(call)
    /\ rpc' = "done"
    /\ UNCHANGED <<call, hr_avg, loop, weighting, snap, outsideResampler>>

(***************************************************************************)
(* temporal_linear_interpolation_np(lr, hr_shape)                          *)
(***************************************************************************)
\* line 939, interpolate[::2] = lr: numpy broadcasts lr to the slice.  A 3D
\* lr (x, y, z) is one block written to every selected frame; a 4D lr needs
\* as many frames as the slice, or exactly one; a lr with a trailing fifth
\* axis cannot be broadcast.
CanAssignEven(c) ==
    \/ c.ndim = 3
    \/ c.ndim = 4 /\ (Len(c.hr) = SliceCount(0, 2, c.hr_T) \/ Len(c.hr) = 1)

AssignEven(buf, lr) ==
    [k \in 1..Len(buf) |->
        IF (k - 1) % 2 = 0
        THEN <<lr[IF Len(lr) = 1 THEN 1 ELSE ((k - 1) \div 2) + 1], 1>>
        ELSE buf[k]]

\* range(0, T-2, 2) is empty when T <= 2
InterpNpEnter ==
    /\ rpc = "enter" /\ call.fn = "linear_np"
    /\ IF CanAssignEven(call)
       THEN /\ hr_avg' = AssignEven(Zeros(call.hr_T), call.hr)  \* lines 937-939
            /\ loop' = [NoLoop EXCEPT !.t = 0]
            /\ IF call.hr_T - 2 > 0
               THEN rpc' = "np_loop" /\ UNCHANGED result
               ELSE rpc' = "done" /\ result' = Array(hr_avg')
       ELSE /\ result' = Raised("ValueError")
            /\ rpc' = "done"
            /\ UNCHANGED <<hr_avg, loop>>
    /\ UNCHANGED <<call, weighting, snap, outsideResampler>>

\* (variant: the odd frame repeats the frame before it)
Midpoint_Previous(a, b) == a

\* line 941: interpolate[1+t] = (interpolate[t] + interpolate[1+t+1]) / 2
Midpoint(a, b) == <<a[1] * b[2] + b[1] * a[2], 2 * a[2] * b[2]>>

InterpNpStep ==
    /\ rpc = "np_loop"
    /\ hr_avg' = [hr_avg EXCEPT ![loop.t + 2] = Midpoint(hr_avg[loop.t + 1], hr_avg[loop.t + 3])]
    /\ IF loop.t + 2 < call.hr_T - 2
       THEN /\ loop' = [loop EXCEPT !.t = loop.t + 2]
            /\ rpc' = "np_loop"
            /\ UNCHANGED result
       ELSE /\ loop' = loop
            /\ result' = Array(hr_avg')
            /\ rpc' = "done"
    /\ UNCHANGED <<call, weighting, snap, outsideResampler>>

(***************************************************************************)
(* create_temporal_mask(mask, n_frames) (evaluate_utils.py lines 906-912)  *)
(***************************************************************************)
\* (variant: np.broadcast_to instead of np.repeat, every frame a view of mask)
CreateTemporalMask_Broadcast(c) ==
    IF c.ndim # 3
    THEN Raised("AssertionError")
    ELSE View(c.hr, [k \in 1..c.n |-> 0])

\* line 910 asserts a 3D mask; line 912, np.repeat(np.expand_dims(mask, 0),
\* n_frames, axis=0): np.repeat allocates a new array and copies the block
\* into each of its n_frames frames
CreateTemporalMask(c) ==
    IF c.ndim # 3
    THEN Raised("AssertionError")
    ELSE Array([k \in 1..c.n |-> <<c.hr[1], 1>>])

TemporalMask ==
    /\ rpc = "enter" /\ call.fn = "mask"
    /\ result' = CreateTemporalMask(call)
    /\ rpc' = "done"
    /\ UNCHANGED <<call, hr_avg, loop, weighting, snap, outsideResampler>>

(***************************************************************************)
(* calculate_temporal_derivative(data, timestep) (evaluate_utils.py lines  *)
(* 848-861), on a 4D data of n_frames frames.                              *)
(***************************************************************************)
\* line 859: dt = np.abs(dt)
AbsFrames(buf) == [k \in 1..Len(buf) |-> <<Abs(buf[k][1]), buf[k][2]>>]

\* lines 854-856: dt = np.zeros_like(data); range(n_frames-1) is empty for
\* a single frame
DerivativeEnter ==
    /\ rpc = "enter" /\ call.fn = "derivative"
    /\ hr_avg' = Zeros(NFrames)
    /\ loop' = [NoLoop EXCEPT !.t = 0]
    /\ IF NFrames - 1 > 0
       THEN rpc' = "dt_loop" /\ UNCHANGED result
       ELSE rpc' = "done" /\ result' = Array(AbsFrames(hr_avg'))
    /\ UNCHANGED <<call, weighting, snap, outsideResampler>>

\* line 857: the frame data[t+timestep] is read
ForwardIndex(t, timestep) == t + timestep

\* line 857: dt[t] = (data[t+timestep] - data[t]) / timestep
ForwardDifference(hr, t, timestep) ==
    <<hr[ForwardIndex(t, timestep) + 1] - hr[t + 1], timestep>>

\* one iteration of the loop of lines 856-857; an index beyond the last frame
\* raises IndexError
DerivativeStep ==
    /\ rpc = "dt_loop"
    /\ IF ForwardIndex(loop.t, call.n) >= NFrames
       THEN /\ result' = Raised("IndexError")
            /\ rpc' = "done"
            /\ UNCHANGED <<hr_avg, loop>>
       ELSE /\ hr_avg' = [hr_avg EXCEPT ![loop.t + 1] =
                              ForwardDifference(call.hr, loop.t, call.n)]
            /\ IF loop.t + 1 < NFrames - 1
               THEN /\ loop' = [loop EXCEPT !.t = loop.t + 1]
                    /\ rpc' = "dt_loop"
                    /\ UNCHANGED result
               ELSE /\ loop' = loop
                    /\ result' = Array(AbsFrames(hr_avg'))         \* lines 859-861
                    /\ rpc' = "done"
    /\ UNCHANGED <<call, weighting, snap, outsideResampler>>

(***************************************************************************)
(* The caller writes into the array a routine returned: frame k becomes    *)
(* Written.  A freshly allocated array changes in that frame only; a view  *)
(* shares the storage of the input, so the input position it aliases and   *)
(* every frame of the view at that position change with it.                *)
(***************************************************************************)
Written == -7

WriteFrame(res, k) ==
    [res EXCEPT !.frames =
        [j \in 1..Len(res.frames) |->
            IF j = k \/ (res.kind = "view" /\ res.idx[j] = res.idx[k])
            THEN <<Written, 1>>
            ELSE res.frames[j]]]

WriteThrough(hr, res, k) ==
    IF res.kind = "view" THEN [hr EXCEPT ![res.idx[k] + 1] = Written] ELSE hr

CallerWrite ==
    /\ rpc = "done" /\ result.kind \in {"array", "view"}
    /\ \E k \in 1..Len(result.frames) :
          /\ snap' = [hr |-> call.hr, frames |-> result.frames, k |-> k]
          /\ result' = WriteFrame(result, k)
          /\ call' = [call EXCEPT !.hr = WriteThrough(call.hr, result, k)]
    /\ rpc' = "written"
    /\ UNCHANGED <<hr_avg, loop, weighting, outsideResampler>>

NextResampler ==
    \/ CartesianDownsampling
    \/ AveragingEnter
    \/ AveragingStep
    \/ AveragingDivide
    \/ BoxEnter
    \/ BoxWeights
    \/ BoxFoldRight
    \/ BoxFoldLeft
    \/ BoxSum
    \/ TemporalInterpolation
    \/ InterpNpEnter
    \/ InterpNpStep
    \/ TemporalMask
    \/ DerivativeEnter
    \/ DerivativeStep
    \/ CallerWrite

(***************************************************************************)
(* The HDF5 helpers and the __main__ of temporal_downsampling.py.          *)
(*                                                                         *)
(* A file is [exists, data]: data maps each key of the file to its         *)
(* dataset [dtype, data].  A run is a programme of calls chosen at the     *)
(* start: the script's __main__ (lines 166-170) or a caller applying the   *)
(* helpers to arbitrary files and key lists.                               *)
(***************************************************************************)
Keys == {"u", "mag_u", "mag_v", "mag_w", "mask"}
Paths == {"smooth_file_lr", "hr_file"}

\* dataset values: an integer stands for the stored array.  float32 has fewer
\* significant bits than float64: here only even values are representable.
ToFloat32(x) == (x \div 2) * 2
Datasets == {[dtype |-> "float64", data |-> 3],
             [dtype |-> "float32", data |-> 2],
             [dtype |-> "int32", data |-> 1]}

Missing == [exists |-> FALSE, data |-> <<>>]
EmptyFile == [exists |-> TRUE, data |-> <<>>]
\* the files whose datasets are all alike
Files == {Missing} \cup
         {[exists |-> TRUE, data |-> [k \in K |-> d]] : K \in SUBSET Keys, d \in Datasets}

KeysOf(f) == DOMAIN f.data

\* line 166
keys == <<"mag_u", "mag_v", "mag_w", "mask">>
KeyLists == {keys, <<"u">>, <<"u", "u">>, <<"mask", "u", "mask">>}

DeleteCall(path, lst) == [op |-> "delete", file |-> path, from |-> "", lst |-> lst]
MergeCall(target, source) == [op |-> "merge", file |-> target, from |-> source, lst |-> <<>>]
ExitCall == [op |-> "exit", file |-> "", from |-> "", lst |-> <<>>]

\* lines 166-170 of __main__; the rest of the script follows exit() and never runs
Main == <<DeleteCall("smooth_file_lr", keys), MergeCall("smooth_file_lr", "hr_file"), ExitCall>>
Programmes ==
    {Main, <<MergeCall("smooth_file_lr", "hr_file")>>}
    \cup {<<DeleteCall("smooth_file_lr", l), MergeCall("smooth_file_lr", "hr_file")>> : l \in KeyLists}

InitStore ==
    /\ fs \in [Paths -> Files]
    /\ fs0 = fs
    /\ pre = fs
    /\ todo \in Programmes
    /\ ran = <<>>
    /\ status = "running"

\* h5py.File(path, mode='a'): opens the file, creating an empty one if missing
OpenAppend(f) == IF f.exists THEN f ELSE EmptyFile

\* the function f without key k
RemoveKey(d, k) == [x \in (DOMAIN d) \ {k} |-> d[x]]
\* the function f with key k bound to v
PutKey(d, k, v) == [x \in (DOMAIN d) \cup {k} |-> IF x = k THEN v ELSE d[x]]

\* lines 152-155: for key in lst_keys: if key in hf.keys(): del hf[key]
RECURSIVE DeleteKeys(_, _)
DeleteKeys(d, lst) ==
    IF lst = <<>> THEN d
    ELSE DeleteKeys(IF Head(lst) \in DOMAIN d THEN RemoveKey(d, Head(lst)) ELSE d, Tail(lst))

\* (variant: the loop stops after the first listed key)
DeleteDataFromH5_FirstOnly(f, lst) ==
    [exists |-> TRUE,
     data |-> DeleteKeys(OpenAppend(f).data, IF lst = <<>> THEN lst ELSE <<Head(lst)>>)]

\* delete_data_from_h5(h5_file, lst_keys)
DeleteDataFromH5(f, lst) ==
    [exists |-> TRUE, data |-> DeleteKeys(OpenAppend(f).data, lst)]

DeleteData ==
    /\ status = "running" /\ todo # <<>> /\ Head(todo).op = "delete"
    /\ LET c == Head(todo)
       IN /\ fs' = [fs EXCEPT ![c.file] = DeleteDataFromH5(fs[c.file], c.lst)]
          /\ pre' = fs
          /\ ran' = Append(ran, c)
          /\ todo' = Tail(todo)
    /\ UNCHANGED <<fs0, status, outsideStore>>

\* lines 137-141: np.array(toadd_h5[key]), float64 converted to float32
Converted(ds) ==
    IF ds.dtype = "float64"
    THEN [dtype |-> "float32", data |-> ToFloat32(ds.data)]
    ELSE ds

\* lines 134-145: the loop over toadd_h5.keys(); S is the set of source keys
\* still to visit (each is handled independently of the others)
RECURSIVE MergeKeys(_, _, _)
MergeKeys(d, src, S) ==
    IF S = {} THEN d
    ELSE LET key == CHOOSE k \in S : TRUE
         IN MergeKeys(IF key \notin DOMAIN d THEN PutKey(d, key, Converted(src[key])) ELSE d,
                      src, S \ {key})

\* (variant: without the test of line 135, every source key is written)
MergeDataToH5_Overwrite(f, g) ==
    [exists |-> TRUE,
     data |-> [k \in KeysOf(OpenAppend(f)) \cup KeysOf(g) |->
                  IF k \in KeysOf(g) THEN Converted(g.data[k]) ELSE f.data[k]]]

\* merge_data_to_h5(input_file, toadd_file), toadd_file existing
MergeDataToH5(f, g) ==
    [exists |-> TRUE, data |-> MergeKeys(OpenAppend(f).data, g.data, KeysOf(g))]

\* line 132 opens (creates) input_file before line 133 opens toadd_file for
\* reading, which raises when toadd_file is missing
MergeData ==
    /\ status = "running" /\ todo # <<>> /\ Head(todo).op = "merge"
    /\ LET c == Head(todo)
       IN /\ IF fs[c.from].exists
             THEN /\ fs' = [fs EXCEPT ![c.file] = MergeDataToH5(fs[c.file], fs[c.from])]
                  /\ status' = status
             ELSE /\ fs' = [fs EXCEPT ![c.file] = OpenAppend(fs[c.file])]
                  /\ status' = "OSError"
          /\ pre' = fs
          /\ ran' = Append(ran, c)
          /\ todo' = Tail(todo)
    /\ UNCHANGED <<fs0, outsideStore>>

\* line 170: exit()
Exit ==
    /\ status = "running" /\ todo # <<>> /\ Head(todo).op = "exit"
    /\ status' = "exited"
    /\ ran' = Append(ran, Head(todo))
    /\ todo' = Tail(todo)
    /\ UNCHANGED <<fs, fs0, pre, outsideStore>>

NextStore ==
    \/ DeleteData
    \/ MergeData
    \/ Exit

(***************************************************************************)
(* The __main__ of predictor_temporal_all_axis.py.                         *)
(*                                                                         *)
(* The input file's "u" has shape lr_shape = (T, X, Y, Z).  The network,   *)
(* the patch generator and the dataset loader are outside src/: one row's  *)
(* stitched prediction is given by cfg.net, uniform over the two spatial    *)
(* axes of the row's slice; cfg.v_frames is its extent along the time axis *)
(* (the slice's, a single frame, or twice the slice's).                    *)
(***************************************************************************)
axis == <<0, 1, 2>>                                     \* line 86
set_names == <<"Test", "Validation">>                   \* line 37
round_small_values == TRUE                              \* line 60

Shapes == {<<t, x, y, z>> : t \in 1..MaxDim, x \in 1..MaxDim, y \in 1..MaxDim, z \in 1..MaxDim}

\* the network's behaviour: every stitched voxel is the constant p, or a
\* value that differs between components, axes and rows
Nets == {[kind |-> "const", p |-> p] : p \in {-1, 0, 1, 2}} \cup {[kind |-> "varying", p |-> 0]}

Configs ==
    {[lr_shape |-> sh, net |-> n, venc |-> ve, velocity_per_px |-> vp, out_exists |-> oe,
      v_frames |-> vf] :
        sh \in Shapes, n \in Nets, ve \in {1, 2}, vp \in {1, 3}, oe \in BOOLEAN,
        vf \in {"same", "one", "double"}}

Voxels(sh) ==
    {<<i, t, x, y, z>> : i \in 0..2, t \in 0..(sh[1] - 1), x \in 0..(sh[2] - 1),
                         y \in 0..(sh[3] - 1), z \in 0..(sh[4] - 1)}
ZeroVolume(sh) == [v \in Voxels(sh) |-> 0]

InitPredictor ==
    /\ cfg \in Configs
    /\ epc = "dataset"
    /\ eloop = [ds |-> 1, a |-> 1, nrow |-> 0, rows |-> <<>>]
    /\ volume = <<>>
    /\ combined = <<>>
    /\ outputs = <<>>

\* lines 44-94: the head of the dataset loop.  Line 74 asserts that the
\* output file does not exist; lines 88-94 read lr_shape and allocate the
\* three combined buffers.  (Lines 83-84 create the output directory, which
\* is not part of the state.)
DatasetStart ==
    /\ epc = "dataset" /\ eloop.ds <= Len(set_names)
    /\ IF cfg.out_exists
       THEN /\ epc' = "AssertionError"
            /\ UNCHANGED <<eloop, combined>>
       ELSE /\ combined' = ZeroVolume(cfg.lr_shape)
            /\ eloop' = [eloop EXCEPT !.a = 1]
            /\ epc' = "axis"
    /\ UNCHANGED <<cfg, volume, outputs, outsidePredictor>>

\* line 101, dataset.get_dataset_len(input_filepath, a): the number of rows
\* along spatial axis a
GetDatasetLen(sh, a) == sh[a + 2]

\* lines 97-110: the head of the axis loop
AxisStart ==
    /\ epc = "axis"
    /\ volume' = ZeroVolume(cfg.lr_shape)
    /\ eloop' = [eloop EXCEPT !.nrow = 0, !.rows = <<>>]
    /\ epc' = "row"
    /\ UNCHANGED <<cfg, combined, outputs, outsidePredictor>>

\* lines 117-149: the stitched prediction of component i for row nrow of
\* axis a, at its time frame t
Stitched(net, a, nrow, i, t) ==
    IF net.kind = "const" THEN net.p ELSE (i + 1) * (a + 1) - nrow + 10 * t

\* the number of time frames of the stitched prediction v
StitchedFrames(c) ==
    IF c.v_frames = "same" THEN c.lr_shape[1]
    ELSE IF c.v_frames = "one" THEN 1
    ELSE 2 * c.lr_shape[1]

\* lines 159-162, volume[i, :, nrow, :, :] = v with v = np.expand_dims(v, 0):
\* numpy broadcasts the value to the slice, so along the time axis v needs
\* the slice's T frames or a single frame (which is repeated); otherwise
\* numpy raises ValueError
CanAssignSlice(vT, T) == vT = T \/ vT = 1

\* (a variant that thresholds the normalised value, before the product)
Denormalise_ThresholdFirst(p, venc, vpp) ==
    IF round_small_values /\ Abs(p) < vpp THEN 0 ELSE p * venc

\* lines 152-156: denormalise, then zero the values below velocity_per_px
Denormalise(p, venc, vpp) ==
    LET v == p * venc
    IN IF round_small_values /\ Abs(v) < vpp THEN 0 ELSE v

\* (a variant that indexes the first spatial axis whatever the pass)
InSlice_FirstAxis(vox, a, nrow, i) == vox[1] = i /\ vox[3] = nrow

\* lines 160-162: whether voxel <<i, t, x, y, z>> lies in the slice row nrow
\* of axis a selects
InSlice(vox, a, nrow, i) == vox[1] = i /\ vox[a + 3] = nrow

\* the slice takes v frame by frame; a single frame of v goes to every frame
WriteRow(vol, a, nrow, i) ==
    [vox \in DOMAIN vol |->
        IF InSlice(vox, a, nrow, i)
        THEN Denormalise(Stitched(cfg.net, a, nrow, i,
                                  IF StitchedFrames(cfg) = 1 THEN 0 ELSE vox[2]),
                         cfg.venc, cfg.velocity_per_px)
        ELSE vol[vox]]

RECURSIVE WriteComponents(_, _, _, _)
WriteComponents(vol, a, nrow, i) ==
    IF i > 2 THEN vol
    ELSE WriteComponents(WriteRow(vol, a, nrow, i), a, nrow, i + 1)

\* lines 112-168: one row of the axis pass
RowStep ==
    /\ epc = "row"
    /\ LET a == axis[eloop.a]
       IN IF CanAssignSlice(StitchedFrames(cfg), cfg.lr_shape[1])
          THEN /\ volume' = WriteComponents(volume, a, eloop.nrow, 0)
               /\ IF eloop.nrow + 1 < GetDatasetLen(cfg.lr_shape, a)
                  THEN /\ eloop' = [eloop EXCEPT !.nrow = eloop.nrow + 1,
                                                 !.rows = Append(@, eloop.nrow)]
                       /\ epc' = "row"
                  ELSE /\ eloop' = [eloop EXCEPT !.rows = Append(@, eloop.nrow)]
                       /\ epc' = "axis_end"
          ELSE /\ epc' = "ValueError"          \* line 160: the first component fails
               /\ UNCHANGED <<volume, eloop>>
    /\ UNCHANGED <<cfg, combined, outputs, outsidePredictor>>

\* (a variant that keeps the last pass only)
Accumulate_Overwrite(comb, vol) == [vox \in DOMAIN comb |-> vol[vox]]

\* lines 173-175: u_combined += volume[0], v_combined += volume[1], ...
Accumulate(comb, vol) == [vox \in DOMAIN comb |-> comb[vox] + vol[vox]]

AxisEnd ==
    /\ epc = "axis_end"
    /\ combined' = Accumulate(combined, volume)
    /\ IF eloop.a < Len(axis)
       THEN /\ eloop' = [eloop EXCEPT !.a = eloop.a + 1]
            /\ epc' = "axis"
       ELSE /\ eloop' = eloop
            /\ epc' = "after_axes"
    /\ UNCHANGED <<cfg, volume, outputs, outsidePredictor>>

\* line 180, exit(): the process ends here; the saves of lines 182-184 and the
\* next dataset of the loop are never reached
PredictorExit ==
    /\ epc = "after_axes"
    /\ epc' = "exited"
    /\ UNCHANGED <<cfg, eloop, volume, combined, outputs, outsidePredictor>>

NextPredictor ==
    \/ DatasetStart
    \/ AxisStart
    \/ RowStep
    \/ AxisEnd
    \/ PredictorExit

(***************************************************************************)
(* One row of the predictor: patchify, predict, patch up (lines 117-149 of *)
(* predictor_temporal_all_axis.py).                                        *)
(*                                                                         *)
(* The row's frame dataset.u has shape (X, Y, Z); its voxel <<x, y, z>>    *)
(* holds FrameValue, different at every voxel.  Network.PatchGenerator is  *)
(* not among the sources: patchify and _patchup_with_overlap follow the    *)
(* design of the sampler and stitcher (patch grid, last patch shifted      *)
(* inward, unweighted mean where patches overlap).  The network keeps the  *)
(* patch shape here (no upsampling).                                       *)
(***************************************************************************)
batch_size == 16                                        \* line 59

FrameValue(vox) == 1 + vox[1] + 10 * vox[2] + 100 * vox[3]
FrameVoxels(shape) ==
    {<<x, y, z>> : x \in 0..(shape[1] - 1), y \in 0..(shape[2] - 1), z \in 0..(shape[3] - 1)}
Local(P) == FrameVoxels(<<P, P, P>>)

\* the network: the identity, or a map that depends on the patch's content
PatchNets == {"identity", "shifted"}

\* frames whose every side is at least the patch size, and the overlap below it
Frames3D ==
    {[shape |-> <<x, y, z>>, P |-> P, o |-> o, net |-> n] :
        x \in 1..MaxSide, y \in 1..MaxSide, z \in 1..MaxSide,
        P \in 1..MaxPatchSize, o \in 0..(MaxPatchSize - 1), n \in PatchNets}
\* the 8 x 8 x 8 block cut into patches of size 4 without overlap
BlockFrames == {[shape |-> <<8, 8, 8>>, P |-> 4, o |-> 0, net |-> n] : n \in PatchNets}
PatchFrames ==
    {f \in Frames3D : f.o < f.P /\ \A a \in 1..3 : f.shape[a] >= f.P} \cup BlockFrames

NoGrid == [nr_x |-> 0, nr_y |-> 0, nr_z |-> 0, passed |-> <<0, 0, 0>>]
NoBatches == [current_idx |-> 0, ranges |-> <<>>]

InitPatches ==
    /\ frame \in PatchFrames
    /\ pgen = NoGrid
    /\ ppc = "patchify"
    /\ velocities = <<>>
    /\ results = <<>>
    /\ bloop = NoBatches
    /\ v_patchup = <<>>

\* (variant: the division rounds down)
GridSize_Floor(dim, P, o) == Max((dim - o) \div (P - o), 1)

\* number of patches along an axis of extent dim
GridSize(dim, P, o) == CeilDiv(dim - o, P - o)

\* (variant: the last patch is not shifted inward)
PatchStart_NoShift(k, dim, P, o) == k * (P - o)

\* first voxel of patch k (0-based) along an axis: patches advance by P - o,
\* the last one is shifted inward so that it ends at the frame's end
PatchStart(k, dim, P, o) == Min(k * (P - o), dim - P)

\* grid coordinates <<ix, iy, iz>> of the n-th patch (0-based) of a sequence
\* ordered with z varying fastest, in a grid g = <<nr_x, nr_y, nr_z>>
GridCoords(n, g) == <<n \div (g[3] * g[2]), (n \div g[3]) % g[2], n % g[3]>>

PatchOrigin(ix, f) ==
    [a \in 1..3 |-> PatchStart(ix[a], f.shape[a], f.P, f.o)]

\* the patch cut out at an origin: its grid coordinates, origin and content
CutPatch(ix, f) ==
    LET org == PatchOrigin(ix, f)
    IN [grid |-> ix, origin |-> org,
        data |-> [l \in Local(f.P) |->
                    FrameValue(<<org[1] + l[1], org[2] + l[2], org[3] + l[3]>>)]]

\* pgen.patchify(dataset), one channel: the patches in sequence order
GeneratePatches(f) ==
    LET g == [a \in 1..3 |-> GridSize(f.shape[a], f.P, f.o)]
    IN [n \in 1..(g[1] * g[2] * g[3]) |-> CutPatch(GridCoords(n - 1, g), f)]

\* line 120: velocities, magnitudes = pgen.patchify(dataset); the generator
\* keeps the grid in pgen.nr_x, pgen.nr_y, pgen.nr_z
Patchify ==
    /\ ppc = "patchify"
    /\ velocities' = GeneratePatches(frame)
    /\ pgen' = [pgen EXCEPT !.nr_x = GridSize(frame.shape[1], frame.P, frame.o),
                            !.nr_y = GridSize(frame.shape[2], frame.P, frame.o),
                            !.nr_z = GridSize(frame.shape[3], frame.P, frame.o)]
    /\ ppc' = "predict"
    /\ UNCHANGED <<frame, results, bloop, v_patchup, outsidePatches>>

\* network.predict on one patch
NetworkPredict(net, d) ==
    IF net = "identity" THEN d
    ELSE [l \in DOMAIN d |-> d[l] + 1000 * d[<<0, 0, 0>>]]

\* (variant: the slice ignores its start, every batch is the first one)
PySlice_FromStart(s, first, count) == SubSeq(s, 1, Min(count, Len(s)))

\* the Python slice s[first : first + count] of a sequence (0-based first)
PySlice(s, first, count) == SubSeq(s, first + 1, Min(first + count, Len(s)))

\* (variant: results = sr_images, each batch replaces the ones before)
PredictBatch_Overwrite(net, ps, idx, res) ==
    [k \in 1..Len(PySlice(ps, idx, batch_size)) |->
        NetworkPredict(net, PySlice(ps, idx, batch_size)[k])]

\* lines 131-140: sr_images = network.predict(the patches of
\* np.index_exp[current_idx:current_idx+batch_size]);
\* results = np.append(results, sr_images, axis=0)
PredictBatch(net, ps, idx, res) ==
    res \o [k \in 1..Len(PySlice(ps, idx, batch_size)) |->
               NetworkPredict(net, PySlice(ps, idx, batch_size)[k])]

\* one iteration of the loop of line 128,
\* for current_idx in range(0, data_size, batch_size)
Predict ==
    /\ ppc = "predict"
    /\ LET ps  == [n \in 1..Len(velocities) |-> velocities[n].data]
           idx == bloop.current_idx
       IN /\ results' = PredictBatch(frame.net, ps, idx, results)
          /\ bloop' = [current_idx |-> idx + batch_size,
                       ranges |-> Append(bloop.ranges,
                                         <<idx, Len(PySlice(ps, idx, batch_size))>>)]
          /\ ppc' = IF idx + batch_size < Len(ps) THEN "predict" ELSE "patchup"
    /\ UNCHANGED <<frame, pgen, velocities, v_patchup, outsidePatches>>

\* whether the patch at origin org covers voxel vox
Covers(org, P, vox) == \A a \in 1..3 : org[a] <= vox[a] /\ vox[a] < org[a] + P

RECURSIVE Contributions(_, _, _, _, _)
RECURSIVE LastContribution(_, _, _, _, _)
\* sum and number of the values the first n patches contribute at vox
Contributions(res, n, vox, g, f) ==
    IF n = 0 THEN <<0, 0>>
    ELSE LET rest == Contributions(res, n - 1, vox, g, f)
             org == PatchOrigin(GridCoords(n - 1, g), f)
         IN IF Covers(org, f.P, vox)
            THEN <<rest[1] + res[n][<<vox[1] - org[1], vox[2] - org[2], vox[3] - org[3]>>],
                   rest[2] + 1>>
            ELSE rest

\* the value of the last of the first n patches that covers vox
LastContribution(res, n, vox, g, f) ==
    IF n = 0 THEN <<0, 0>>
    ELSE LET org == PatchOrigin(GridCoords(n - 1, g), f)
         IN IF Covers(org, f.P, vox)
            THEN <<res[n][<<vox[1] - org[1], vox[2] - org[2], vox[3] - org[3]>>], 1>>
            ELSE LastContribution(res, n - 1, vox, g, f)

\* (variant: where patches overlap the later patch overwrites the earlier)
PatchupWithOverlap_LastWins(res, g, f) ==
    [vox \in FrameVoxels(f.shape) |-> LastContribution(res, Len(res), vox, g, f)]

\* pgen._patchup_with_overlap(patches, nr_x, nr_y, nr_z): every voxel is the
\* mean of the values of the patches covering it (kept as <<sum, count>>)
PatchupWithOverlap(res, g, f) ==
    [vox \in FrameVoxels(f.shape) |-> Contributions(res, Len(res), vox, g, f)]

\* (variant: the grid is passed in the order nr_z, nr_y, nr_x)
PatchupArgs_Reversed(pg) == <<pg.nr_z, pg.nr_y, pg.nr_x>>

\* line 149: the grid passed to the stitcher, pgen.nr_x, pgen.nr_y, pgen.nr_z
PatchupArgs(pg) == <<pg.nr_x, pg.nr_y, pg.nr_z>>

\* line 149: v = pgen._patchup_with_overlap(results[..., i], pgen.nr_x, pgen.nr_y, pgen.nr_z)
Patchup ==
    /\ ppc = "patchup"
    /\ v_patchup' = PatchupWithOverlap(results, PatchupArgs(pgen), frame)
    /\ pgen' = [pgen EXCEPT !.passed = PatchupArgs(pgen)]
    /\ ppc' = "done"
    /\ UNCHANGED <<frame, velocities, results, bloop, outsidePatches>>

NextPatches ==
    \/ Patchify
    \/ Predict
    \/ Patchup

(***************************************************************************)
(* The relative-error metrics of evaluate_utils.py:                        *)
(* calculate_relative_error_np (lines 115-156) and                         *)
(* calculate_relative_error_normalized (lines 158-207).                    *)
(*                                                                         *)
(* The fields have T frames; N voxels of a frame are followed (the spatial *)
(* axes are longer than 1).  A voxel is <<u_pred, u_hi>>, the v and w      *)
(* components being 0, so diff_speed = |u_pred - u_hi| and                 *)
(* actual_speed = |u_hi|.  Losses are kept in units of 1/multiplier, the   *)
(* precision line 140 rounds them to.                                      *)
(***************************************************************************)
\* epsilon = 1e-5 (lines 120, 164), as 1 / epsilon
epsilon_inv == 100000
multiplier == 10000                                     \* lines 139, 190

VoxelKinds == <<<<0, 0>>, <<3, 0>>, <<1, 2>>, <<3, 1>>, <<0, 2>>>>
\* a frame of N voxels: the kinds in rotation, starting at kind r
FramePattern(N, r) == [k \in 1..N |-> VoxelKinds[((k - 1 + r) % Len(VoxelKinds)) + 1]]
FramePatterns(N) == {FramePattern(N, r) : r \in 0..(Len(VoxelKinds) - 1)}
\* a frame of a binary mask: empty, full, or every other voxel
MaskPatterns(N) ==
    {[k \in 1..N |-> 0], [k \in 1..N |-> 1], [k \in 1..N |-> k % 2], [k \in 1..N |-> (k + 1) % 2]}

\* the routines that only prepare the mask the same way (lines 216-217,
\* 240-242, 264-265, 297-298); their numeric results are not followed
MaskedRoutines == {"rmse", "pointwise_error", "mean_speed", "fluid_region_points"}

\* mask_ndim = 3: mask is one static frame (X, Y, Z); mask_ndim = 4: one frame
\* per time (T, X, Y, Z), or a static mask stored as (1, X, Y, Z)
MetricCalls ==
    UNION {
        {[fn |-> f, T |-> T, N |-> N, vel |-> [t \in 1..T |-> FramePattern(N, 0)],
          mask_ndim |-> d, mask |-> <<m>>] :
            f \in MaskedRoutines \cup {"relative_error_normalized"},
            d \in {3, 4}, m \in MaskPatterns(N)}
        \cup
        {[fn |-> f, T |-> T, N |-> N, vel |-> [t \in 1..T |-> FramePattern(N, 0)],
          mask_ndim |-> 4, mask |-> m] :
            f \in MaskedRoutines, m \in [1..T -> MaskPatterns(N)]}
        \cup
        {[fn |-> f, T |-> T, N |-> N, vel |-> v, mask_ndim |-> 3, mask |-> <<m>>] :
            f \in {"relative_error_np", "relative_error_normalized"},
            v \in [1..T -> FramePatterns(N)], m \in MaskPatterns(N)}
        \cup
        {[fn |-> "relative_error_normalized", T |-> T, N |-> N, vel |-> v,
          mask_ndim |-> 4, mask |-> m] :
            v \in [1..T -> FramePatterns(N)], m \in [1..T -> MaskPatterns(N)]}
        : T \in 1..MaxErrFrames, N \in 1..MaxVoxels}

NoMetric == [kind |-> "none", loss |-> <<>>, mean_err |-> <<>>]

InitMetrics ==
    /\ mcall \in MetricCalls
    /\ mres = NoMetric

\* lines 122-127: the speeds of a voxel
DiffSpeed(vx) == Abs(vx[1] - vx[2])
ActualSpeed(vx) == Abs(vx[2])

\* round(multiplier * d / (a + epsilon)) for d <= a, a >= 1, to the nearest integer
RoundedRatio(d, a) ==
    LET m == a * epsilon_inv + 1
        num == d * multiplier * epsilon_inv
    IN IF 2 * (num % m) > m THEN (num \div m) + 1 ELSE num \div m

\* lines 130-133: np.clip(diff_speed / (actual_speed + epsilon), 0., 1.); the
\* quotient exceeds 1 exactly when d > a (d, a whole numbers)
ClippedRelative(d, a) == IF d > a THEN multiplier ELSE RoundedRatio(d, a)

\* line 181: np.tanh(diff_speed / (actual_speed + epsilon)), rounded to
\* 1/multiplier; tanh(1) = 0.76159, tanh(2) = 0.96403, tanh(3) = 0.99505,
\* tanh(1/2) = 0.46212, tanh(3/2) = 0.90515 (epsilon moves none of the
\* rounded values); diff_speed / epsilon is so large that tanh gives 1
TanhRelative(d, a) ==
    IF d = 0 THEN 0
    ELSE IF a = 0 THEN multiplier
    ELSE IF d = a THEN 7616
    ELSE IF d = 2 * a THEN 9640
    ELSE IF d = 3 * a THEN 9951
    ELSE IF 2 * d = a THEN 4621
    ELSE 9051

RelativeSpeedLoss(fn, d, a) ==
    IF fn = "relative_error_np" THEN ClippedRelative(d, a) ELSE TanhRelative(d, a)

\* (variant: without the correction, the relative loss is kept everywhere)
CorrectedSpeedLoss_NoCorrection(fn, vx) ==
    RelativeSpeedLoss(fn, DiffSpeed(vx), ActualSpeed(vx))

\* lines 136-140: np.where(actual_speed != 0, relative_speed_loss, diff_speed),
\* then rounded to 1/multiplier
CorrectedSpeedLoss(fn, vx) ==
    IF ActualSpeed(vx) # 0
    THEN RelativeSpeedLoss(fn, DiffSpeed(vx), ActualSpeed(vx))
    ELSE DiffSpeed(vx) * multiplier

\* lines 145-146: np.where(np.equal(binary_mask, 1.0), loss, 0)
MaskedLoss(m, loss) == IF m = 1 THEN loss ELSE 0

\* the mask frame that applies to frame t: a static mask is broadcast
MaskFrame(c, t) == IF c.mask_ndim = 3 THEN c.mask[1] ELSE c.mask[t]

LossArray(c) ==
    [t \in 1..c.T |-> [k \in 1..c.N |->
        MaskedLoss(MaskFrame(c, t)[k], CorrectedSpeedLoss(c.fn, c.vel[t][k]))]]

\* lines 150, 154: 100 * sum(loss, axis=(1,2,3)) / (sum(mask) + 1), a rational
MeanErr(lossFrame, count) == <<100 * SeqSum(lossFrame), multiplier * (count + 1)>>

\* calculate_relative_error_np: line 150 divides by
\* np.sum(binary_mask, axis=(0,1,2)) + 1, the count of the static mask
RelativeErrorNp ==
    /\ mcall.fn = "relative_error_np" /\ mres.kind = "none"
    /\ mres' = [kind |-> "array", loss |-> LossArray(mcall),
                mean_err |-> [t \in 1..mcall.T |->
                    MeanErr(LossArray(mcall)[t], SeqSum(mcall.mask[1]))]]
    /\ UNCHANGED <<mcall, outsideMetrics>>

\* len(binary_mask.squeeze().shape): squeeze drops the axes of length 1, so a
\* (1, X, Y, Z) mask has squeezed rank 3 (the spatial axes are longer than 1)
SqueezedRank(c) == IF c.mask_ndim = 4 /\ Len(c.mask) > 1 THEN 4 ELSE 3

\* line 910, assert(len(mask.shape) == 3), on the mask the routine passes:
\* binary_mask itself, not its squeezed form
AssertsRank3(c) == c.mask_ndim = 3

\* lines 166-168 (and 216-217, 240-242, 264-265, 297-298): whether the call
\* of create_temporal_mask fails its assertion
MaskAssertionFails(c) == SqueezedRank(c) = 3 /\ ~AssertsRank3(c)

\* calculate_relative_error_normalized: lines 166-168 turn a mask whose
\* squeezed shape is 3D into a temporal mask with create_temporal_mask, which
\* asserts a 3D mask (a 4D mask of one frame squeezes to 3D and fails the
\* assertion); line 201 divides by np.sum(binary_mask, axis=(1,2,3)) + 1
RelativeErrorNormalized ==
    /\ mcall.fn = "relative_error_normalized" /\ mres.kind = "none"
    /\ IF MaskAssertionFails(mcall)
       THEN mres' = [NoMetric EXCEPT !.kind = "AssertionError"]
       ELSE mres' = [kind |-> "array", loss |-> LossArray(mcall),
                     mean_err |-> [t \in 1..mcall.T |->
                         MeanErr(LossArray(mcall)[t], SeqSum(MaskFrame(mcall, t)))]]
    /\ UNCHANGED <<mcall, outsideMetrics>>

\* calculate_rmse, calculate_pointwise_error, calculate_mean_speed and
\* get_fluid_region_points up to the mask they evaluate with: the temporal
\* mask of create_temporal_mask for a mask of squeezed rank 3, the mask
\* itself otherwise
MaskedMetric ==
    /\ mcall.fn \in MaskedRoutines /\ mres.kind = "none"
    /\ IF MaskAssertionFails(mcall)
       THEN mres' = [NoMetric EXCEPT !.kind = "AssertionError"]
       ELSE mres' = [kind |-> "masked", loss |-> [t \in 1..mcall.T |-> MaskFrame(mcall, t)],
                     mean_err |-> <<>>]
    /\ UNCHANGED <<mcall, outsideMetrics>>

NextMetrics ==
    \/ RelativeErrorNp
    \/ RelativeErrorNormalized
    \/ MaskedMetric

(***************************************************************************)
(* Specifications.  Each one runs one part of the repository and leaves    *)
(* the variables of the other parts at rest.                               *)
(***************************************************************************)
ResamplerAtRest ==
    /\ call = MkCall("none", [ndim |-> 0, hr |-> <<>>], 0, 0, 0, FALSE, FALSE, 0)
    /\ rpc = "rest" /\ hr_avg = <<>> /\ loop = NoLoop /\ weighting = <<>>
    /\ result = NoResult /\ snap = NoSnap
StoreAtRest ==
    /\ fs = [p \in Paths |-> Missing] /\ fs0 = fs /\ pre = fs
    /\ todo = <<>> /\ ran = <<>> /\ status = "rest"

PredictorAtRest ==
    /\ cfg = [lr_shape |-> <<1, 1, 1, 1>>, net |-> [kind |-> "const", p |-> 0], venc |-> 1,
              velocity_per_px |-> 1, out_exists |-> FALSE, v_frames |-> "same"]
    /\ epc = "rest" /\ eloop = [ds |-> 1, a |-> 1, nrow |-> 0, rows |-> <<>>]
    /\ volume = <<>> /\ combined = <<>> /\ outputs = <<>>

PatchesAtRest ==
    /\ frame = [shape |-> <<1, 1, 1>>, P |-> 1, o |-> 0, net |-> "identity"]
    /\ pgen = NoGrid /\ ppc = "rest"
    /\ velocities = <<>> /\ results = <<>> /\ bloop = NoBatches /\ v_patchup = <<>>

MetricsAtRest ==
    /\ mcall = [fn |-> "none", T |-> 0, N |-> 0, vel |-> <<>>, mask_ndim |-> 3, mask |-> <<>>]
    /\ mres = NoMetric

ResamplerRun ==
    InitResampler /\ StoreAtRest /\ PredictorAtRest /\ PatchesAtRest /\ MetricsAtRest
StoreRun ==
    InitStore /\ ResamplerAtRest /\ PredictorAtRest /\ PatchesAtRest /\ MetricsAtRest
PredictorRun ==
    InitPredictor /\ ResamplerAtRest /\ StoreAtRest /\ PatchesAtRest /\ MetricsAtRest
PatchesRun ==
    InitPatches /\ ResamplerAtRest /\ StoreAtRest /\ PredictorAtRest /\ MetricsAtRest
MetricsRun ==
    InitMetrics /\ ResamplerAtRest /\ StoreAtRest /\ PredictorAtRest /\ PatchesAtRest

SpecResampler == ResamplerRun /\ [][NextResampler]_vars

SpecStore == StoreRun /\ [][NextStore]_vars

SpecPredictor == PredictorRun /\ [][NextPredictor]_vars

SpecPatches == PatchesRun /\ [][NextPatches]_vars

SpecMetrics == MetricsRun /\ [][NextMetrics]_vars

(***************************************************************************)
(* Claims about the temporal resampler.                                    *)
(***************************************************************************)
Returned == result.kind \in {"array", "view"}
Done(f) == rpc = "done" /\ call.fn = f

\* rational equality a = p/q
RatEq(a, p, q) == a[2] # 0 /\ q # 0 /\ a[1] * q = p * a[2]

\* C1: cartesian_temporal_downsampling(hr, n, offset) on a 4D hr of T frames
\* with n >= 1 and offset >= 0 returns the frames hr[offset + k*n], for every
\* k >= 0 with offset + k*n < T, in increasing k, and nothing else.
C1_StrideDownsampling ==
    (Done("cartesian") /\ call.ndim = 4 /\ call.n >= 1 /\ call.offset >= 0) =>
        /\ Returned
        /\ \A k \in 1..Len(result.idx) :
              /\ result.idx[k] = call.offset + (k - 1) * call.n
              /\ result.idx[k] < NFrames
              /\ result.frames[k] = <<call.hr[result.idx[k] + 1], 1>>
        /\ Len(result.frames) = Len(result.idx)
        /\ \A j \in 0..(NFrames - 1) :
              (j >= call.offset /\ (j - call.offset) % call.n = 0) =>
                  \E k \in 1..Len(result.idx) : result.idx[k] = j

\* the spec's scenario: 6 frames, sampling_factor 2, offset 1 gives frames [1,3,5]
C1_Witness ==
    /\ Done("cartesian") /\ call.ndim = 4 /\ call.hr = Ramp(6)
    /\ call.n = 2 /\ call.offset = 1
    /\ result.idx = <<1, 3, 5>>
    /\ result.frames = <<<<2, 1>>, <<4, 1>>, <<6, 1>>>>

\* the sum of hr[i mod T] over the window t - radius//2 .. t + radius//2
RECURSIVE WindowSum(_, _, _)
WindowSum(hr, first, last) ==
    IF first > last THEN 0
    ELSE hr[(first % Len(hr)) + 1] + WindowSum(hr, first + 1, last)

\* C2: temporal_averaging(hr, radius) returns, for every output frame t, the
\* sum of hr[i mod T] over the symmetric window around t divided by radius.
C2_WindowAverage ==
    (Done("averaging") /\ Returned) =>
        \A t \in 0..(NFrames - 1) :
            RatEq(result.frames[t + 1],
                  WindowSum(call.hr, WindowFirst(t, call.n), WindowLast(t, call.n)),
                  call.n)

\* C3: in the box function, once the weights of an output frame are
\* normalised and both extensions folded back, the periodic weight vector
\* sums to 1 (its numerators sum to the common denominator).
C3_PeriodicWeightsSumToOne ==
    rpc = "box_sum" => SeqSum(PeriodicWeighting) = loop.den

\* a fold with non-empty extensions and a kernel that is not flat, for the
\* first output frame, whose left tail wraps to the end of the cycle
C3_Witness ==
    /\ rpc = "box_sum" /\ loop.L >= 1 /\ loop.R >= 1 /\ call.base > 1 /\ loop.i = 0
    /\ PeriodicWeighting[NFrames] >
           KernelWeights(0, NFrames, loop.L, loop.R, call.base)[loop.L + NFrames]
    /\ SeqSum(PeriodicWeighting) = loop.den

\* C4: for a 4D input with T >= 2 frames and a uniform grid of T samples the
\* box function completes without error and returns an array of T frames.
C4_BoxCompletes ==
    (Done("box") /\ call.ndim = 4 /\ NFrames >= 2) =>
        (result.kind = "array" /\ Len(result.frames) = NFrames)

\* C5: every routine rejects an input that is not 4D, and every routine
\* taking a radius or sampling factor rejects values below 1.
C5_RejectsBadInput ==
    (rpc = "done" /\ call.fn # "mask") =>
        /\ call.ndim # 4 => ~Returned
        /\ (call.fn \in {"cartesian", "averaging"} /\ call.n < 1) => ~Returned

\* C18: the nearest / linear / cubic baselines return hr_shape[0] frames; when
\* hr_shape[0] is twice the number n of low-resolution frames the output
\* times are 0, 1/2, 1, ..., n - 1/2, the frame at the whole time k is lr[k]
\* and the final frame, whose time lies beyond the last sample, is zero.
C18_HalfStepGrid ==
    (rpc = "done" /\ call.fn \in {"linear", "NN", "cubic"} /\ Returned) =>
        /\ Len(result.frames) = call.hr_T
        /\ call.hr_T = 2 * NFrames =>
              /\ \A j \in 0..(call.hr_T - 1) :
                    /\ 2 * TimeNum(j, NFrames, call.hr_T) = j * TimeDen(call.hr_T)
                    /\ j % 2 = 0 => RatEq(result.frames[j + 1], call.hr[(j \div 2) + 1], 1)
              /\ RatEq(result.frames[call.hr_T], 0, 1)

\* the cubic baseline on a ramp of four frames: eight frames, the even ones
\* the samples 1, 2, 3, 4 and the last one zero
C18_Witness ==
    /\ rpc = "done" /\ call.fn = "cubic" /\ call.ndim = 4
    /\ call.hr = Ramp(4) /\ call.hr_T = 8
    /\ Len(result.frames) = 8
    /\ \A k \in 1..4 : result.frames[2 * k - 1] = <<k, 1>>
    /\ result.frames[8] = <<0, 1>>

InBoxLoop == rpc \in {"box_weights", "box_fold_right", "box_fold_left", "box_sum"}

\* C19: in the box function, after the trimming step the left and the right
\* extension hold the same number of samples; the extended axis has T + 2L
\* samples and the true grid sits at its positions L .. L+T-1 (the kernel of
\* output frame i peaks at position L + i).
C19_EqualExtensions ==
    /\ InBoxLoop => (loop.L = loop.R /\ loop.L >= 0)
    /\ rpc = "box_fold_right" =>
          /\ Len(weighting) = NFrames + 2 * loop.L
          /\ Len(PeriodicWeighting) = NFrames
          /\ \A j \in 1..Len(weighting) : weighting[j] <= weighting[loop.L + loop.i + 1]
          /\ call.base > 1 =>
                \A j \in 1..Len(weighting) :
                    j # loop.L + loop.i + 1 => weighting[j] < weighting[loop.L + loop.i + 1]

\* nine frames whose left extension comes out one sample longer than the
\* right one (2 against 1): the trim leaves one sample on each side
C19_Witness ==
    /\ rpc = "box_fold_right" /\ NFrames = 9
    /\ LeftExtensionLen(NFrames, call.roundL) = 2
    /\ RightExtensionLen(NFrames, call.roundR) = 1
    /\ loop.L = 1 /\ loop.R = 1 /\ Len(weighting) = 11

\* the extended positions (0-based) whose weight belongs to true frame k
CreditedTo(k, T, L) == {j \in 0..(T + 2 * L - 1) : (j - L + T) % T = k}
RECURSIVE SumAt(_, _)
SumAt(w, S) ==
    IF S = {} THEN 0
    ELSE LET j == CHOOSE x \in S : TRUE IN w[j + 1] + SumAt(w, S \ {j})

\* C20: after the fold-back the weight of true frame k is the sum of the
\* kernel weights at the extended positions j with (j - L) mod T = k: the
\* right extension lands on the first L frames, the left extension on the
\* last L frames, and a frame of L .. T-L-1 keeps the weight of its own
\* position only.
C20_FoldBackIndices ==
    rpc = "box_sum" =>
        LET T == NFrames
            L == loop.L
            kernel == KernelWeights(loop.i, T, L, loop.R, call.base)
        IN \A k \in 0..(T - 1) :
              /\ PeriodicWeighting[k + 1] = SumAt(kernel, CreditedTo(k, T, L))
              /\ (L <= k /\ k <= T - L - 1) =>
                    /\ CreditedTo(k, T, L) = {L + k}
                    /\ PeriodicWeighting[k + 1] = kernel[L + k + 1]
              /\ k < L => CreditedTo(k, T, L) = {L + k, L + T + k}
              /\ k > T - L - 1 => CreditedTo(k, T, L) = {L + k, k - (T - L)}

\* extensions of two samples, last output frame: its right tail is folded
\* onto frames 0 and 1, frame 2 keeps its own weight
C20_Witness ==
    /\ rpc = "box_sum" /\ loop.L = 2 /\ loop.R = 2 /\ call.base > 1
    /\ loop.i = NFrames - 1
    /\ LET kernel == KernelWeights(loop.i, NFrames, loop.L, loop.R, call.base)
       IN /\ PeriodicWeighting[1] = kernel[3] + kernel[NFrames + 3]
          /\ PeriodicWeighting[2] = kernel[4] + kernel[NFrames + 4]
          /\ kernel[NFrames + 3] > kernel[3]
          /\ PeriodicWeighting[3] = kernel[5]
          /\ PeriodicWeighting[NFrames] = kernel[NFrames + 2] + kernel[2]

\* positions (1-based) of the extended weight vector: the middle segment is
\* the view periodic_weighting, the rest are the two extensions
InMiddle(j) == loop.L < j /\ j <= loop.L + NFrames

FoldRightStep ==
    (rpc = "box_fold_right" /\ rpc' = "box_fold_left") =>
        \A j \in 1..Len(weighting) :
            IF InMiddle(j) /\ j - loop.L <= loop.R
            THEN LET s == Len(weighting) - loop.R + (j - loop.L)
                 IN /\ ~InMiddle(s) /\ s > loop.L + NFrames
                    /\ weighting'[j] = weighting[j] + weighting[s]
            ELSE weighting'[j] = weighting[j]

FoldLeftStep ==
    (rpc = "box_fold_left" /\ rpc' = "box_sum") =>
        \A j \in 1..Len(weighting) :
            IF InMiddle(j) /\ j > NFrames
            THEN LET s == j - NFrames
                 IN /\ ~InMiddle(s) /\ s <= loop.L
                    /\ weighting'[j] = weighting[j] + weighting[s]
            ELSE weighting'[j] = weighting[j]

FoldRaises ==
    (rpc \in {"box_fold_right", "box_fold_left"} /\ rpc' = "done") =>
        weighting' = weighting

\* C28: the fold-back works on a view of the extended weight vector: each of
\* its two in-place additions changes positions of the middle segment only
\* (L .. L+T-1) and adds to them the values the extension positions (above
\* L+T-1 for the first, below L for the second) had before the addition, so
\* no addend is a value an earlier addition has changed; an addition that
\* raises changes nothing.
C28_FoldReadsExtensions == [][FoldRightStep /\ FoldLeftStep /\ FoldRaises]_vars

\* both additions have run on extensions of two samples, first output frame:
\* the left extension carries weight, which the last frame has received
C28_Witness ==
    /\ rpc = "box_sum" /\ loop.L = 2 /\ loop.R = 2 /\ loop.i = 0
    /\ weighting[loop.L] > 0
    /\ weighting[loop.L + NFrames] >= weighting[loop.L]
    /\ weighting[loop.L + 1] > 0

\* C24: temporal_linear_interpolation_np(lr, (T, x, y, z)) with lr of
\* ceil(T/2) frames puts lr[k] at output frame 2k, makes every odd frame j
\* with j+1 <= T-1 the mean of its two neighbours, and for even T never
\* assigns the last frame T-1, which keeps the buffer's initial zero.
C24_LinearNp ==
    (Done("linear_np") /\ call.ndim = 4 /\ Len(call.hr) = CeilDiv(call.hr_T, 2)) =>
        /\ result.kind = "array"
        /\ Len(result.frames) = call.hr_T
        /\ \A j \in 0..(call.hr_T - 1) :
              /\ j % 2 = 0 => result.frames[j + 1] = <<call.hr[(j \div 2) + 1], 1>>
              /\ (j % 2 = 1 /\ j + 1 <= call.hr_T - 1) =>
                     RatEq(result.frames[j + 1],
                           call.hr[((j - 1) \div 2) + 1] + call.hr[((j + 1) \div 2) + 1], 2)
        /\ call.hr_T % 2 = 0 => result.frames[call.hr_T] = <<0, 1>>

\* three frames 1, 2, 3 to six: 1, 3/2, 2, 5/2, 3 and an unassigned last frame
C24_Witness ==
    /\ Done("linear_np") /\ call.ndim = 4 /\ call.hr = <<1, 2, 3>> /\ call.hr_T = 6
    /\ RatEq(result.frames[2], 3, 2) /\ RatEq(result.frames[4], 5, 2)
    /\ result.frames[5] = <<3, 1>> /\ result.frames[6] = <<0, 1>>

\* C26: in temporal_averaging, for every T >= 1 and radius >= 1 (radius > T
\* included), every window index after the periodic wrap lies in
\* [-T, T-1], and the routine never stops with an out-of-range index.
C26_WindowIndexInRange ==
    /\ rpc = "avg_loop" =>
           /\ -NFrames <= WrapIndex(loop.i, NFrames)
           /\ WrapIndex(loop.i, NFrames) <= NFrames - 1
    /\ (Done("averaging") /\ call.ndim = 4 /\ call.n >= 1 /\ NFrames >= 1) =>
           result.kind # "IndexError"

\* C29: the array a TemporalResampler routine (cartesian, averaging, box)
\* returns shares no storage with its input: a later in-place write into a
\* frame of the returned array leaves the input as it was and changes that
\* frame of the result only.
C29_ResultOwnsItsStorage ==
    (rpc = "written" /\ call.fn \in {"cartesian", "averaging", "box"}) =>
        /\ call.hr = snap.hr
        /\ \A j \in 1..Len(result.frames) :
              j # snap.k => result.frames[j] = snap.frames[j]

\* C30: calculate_temporal_derivative(data, timestep) on n frames returns
\* output[t] = |data[t+timestep] - data[t]| / timestep for every t of
\* 0 .. n-2 and 0 for the last frame, and for every timestep >= 1 every
\* frame index t + timestep it reads lies within [0, n-1].
C30_TemporalDerivative ==
    /\ rpc = "dt_loop" =>
           /\ 0 <= ForwardIndex(loop.t, call.n)
           /\ ForwardIndex(loop.t, call.n) <= NFrames - 1
    /\ (Done("derivative") /\ call.n >= 1) =>
           /\ result.kind = "array"
           /\ Len(result.frames) = NFrames
           /\ \A t \in 0..(NFrames - 2) :
                  RatEq(result.frames[t + 1],
                        Abs(call.hr[t + call.n + 1] - call.hr[t + 1]), call.n)
           /\ result.frames[NFrames] = <<0, 1>>

\* C11: create_temporal_mask(mask, n_frames) on a 3D mask returns n_frames
\* frames, each equal to the mask, in storage of its own: after a write to
\* one frame of the result the other frames and the mask are what they were.
C11_TemporalMaskCopies ==
    /\ (Done("mask") /\ call.ndim = 3) =>
          /\ result.kind = "array"
          /\ Len(result.frames) = call.n
          /\ \A k \in 1..call.n : result.frames[k] = <<call.hr[1], 1>>
    /\ (rpc = "written" /\ call.fn = "mask") =>
          /\ call.hr = snap.hr
          /\ \A j \in 1..Len(result.frames) :
                j # snap.k => result.frames[j] = snap.frames[j]
          /\ result.frames[snap.k] = <<Written, 1>>

\* a mask of value 1 repeated over three frames, the middle frame overwritten
C11_Witness ==
    /\ rpc = "written" /\ call.fn = "mask" /\ call.ndim = 3 /\ call.n = 3
    /\ snap.k = 2 /\ snap.hr = <<1>> /\ call.hr = <<1>>
    /\ result.frames = <<<<1, 1>>, <<Written, 1>>, <<1, 1>>>>

(***************************************************************************)
(* Claims about the predictor script.                                      *)
(***************************************************************************)
CombinedKey(i) == <<"u_combined", "v_combined", "w_combined">>[i + 1]

\* C6: a run that finishes its axis loop has saved, for each velocity
\* component, the running sum of the per-axis volumes divided by the number
\* of axes (u_combined, v_combined, w_combined).
C6_EmitsAverage ==
    epc = "exited" =>
        \A vox \in Voxels(cfg.lr_shape) :
            /\ CombinedKey(vox[1]) \in DOMAIN outputs
            /\ outputs[CombinedKey(vox[1])][vox] * Len(axis) = combined[vox]

\* C7: when every per-row reconstruction is the same constant c after
\* denormalisation and thresholding, the ensembled output is c at every voxel.
C7_ConstantField ==
    (epc = "exited" /\ cfg.net.kind = "const") =>
        \A vox \in Voxels(cfg.lr_shape) :
            /\ CombinedKey(vox[1]) \in DOMAIN outputs
            /\ outputs[CombinedKey(vox[1])][vox] =
                   Denormalise(cfg.net.p, cfg.venc, cfg.velocity_per_px)

\* (the buffers behind C7: after the axis loop each combined buffer holds
\* len(axis) times the constant, so the quotient of line 182 would be c)
ConstantFieldSum ==
    (epc \in {"after_axes", "exited"} /\ cfg.net.kind = "const") =>
        \A vox \in Voxels(cfg.lr_shape) :
            combined[vox] = Len(axis) * Denormalise(cfg.net.p, cfg.venc, cfg.velocity_per_px)

\* C17: when the stitched reconstruction of a row has a shape other than
\* the slice of the volume it is written to, the run fails at that write:
\* nothing of the reconstruction is written and no later step is reached.
C17_MismatchIsFatal ==
    StitchedFrames(cfg) # cfg.lr_shape[1] =>
        /\ epc \in {"dataset", "axis", "row", "AssertionError", "ValueError"}
        /\ eloop.a = 1 /\ eloop.nrow = 0
        /\ volume \in {<<>>, ZeroVolume(cfg.lr_shape)}

\* the frame of the stitched prediction that lands in frame t of the slice
StitchedFrame(t) == IF StitchedFrames(cfg) = 1 THEN 0 ELSE t

\* the rows the current pass has written
RowsWritten == {eloop.rows[k] : k \in 1..Len(eloop.rows)}

\* C21: in the pass of axis a, row nrow of component i is written to the
\* slice of the per-axis volume whose index along spatial axis a is nrow and
\* nowhere else (rows not yet written are still zero, written rows hold
\* their own row's values), and the pass writes the rows 0 .. nr_rows-1 once
\* each, so at its end every row of every component has been written.
C21_RowSlices ==
    epc \in {"row", "axis_end"} =>
        LET a == axis[eloop.a]
        IN /\ eloop.rows = [k \in 1..Len(eloop.rows) |-> k - 1]
           /\ epc = "row" => Len(eloop.rows) = eloop.nrow
           /\ epc = "axis_end" => Len(eloop.rows) = GetDatasetLen(cfg.lr_shape, a)
           /\ \A vox \in Voxels(cfg.lr_shape) :
                  volume[vox] =
                      IF vox[a + 3] \in RowsWritten
                      THEN Denormalise(Stitched(cfg.net, a, vox[a + 3], vox[1],
                                                StitchedFrame(vox[2])),
                                       cfg.venc, cfg.velocity_per_px)
                      ELSE 0

C21_Witness ==
    /\ epc = "axis_end" /\ axis[eloop.a] = 1
    /\ cfg.net.kind = "varying" /\ cfg.v_frames = "same"
    /\ cfg.lr_shape[3] = 2 /\ eloop.rows = <<0, 1>>
    /\ volume[<<0, 0, 0, 0, 0>>] = 2 /\ volume[<<0, 0, 0, 1, 0>>] = 1
    /\ volume[<<2, 0, 0, 1, 0>>] = 5

\* C22: every value in a per-axis volume is zero or at least
\* velocity_per_px in magnitude, and a written value is the stitched
\* prediction times venc, zeroed when that product is below velocity_per_px
\* (the threshold sees the product, not the normalised value).
C22_ThresholdAfterVenc ==
    epc \in {"row", "axis_end", "axis", "after_axes", "exited"} /\ volume # <<>> =>
        \A vox \in Voxels(cfg.lr_shape) :
            /\ volume[vox] = 0 \/ Abs(volume[vox]) >= cfg.velocity_per_px
            /\ (epc \in {"row", "axis_end"} /\ vox[axis[eloop.a] + 3] \in RowsWritten) =>
                   LET a   == axis[eloop.a]
                       raw == Stitched(cfg.net, a, vox[a + 3], vox[1],
                                       StitchedFrame(vox[2])) * cfg.venc
                   IN volume[vox] = IF Abs(raw) < cfg.velocity_per_px THEN 0 ELSE raw

C22_Witness ==
    /\ epc = "axis_end" /\ cfg.net = [kind |-> "const", p |-> 2]
    /\ cfg.venc = 2 /\ cfg.velocity_per_px = 3
    /\ \A vox \in Voxels(cfg.lr_shape) : volume[vox] = 4

\* the value pass a leaves at a voxel of its per-axis volume
PassValue(a, vox) ==
    Denormalise(Stitched(cfg.net, a, vox[a + 3], vox[1], StitchedFrame(vox[2])),
                cfg.venc, cfg.velocity_per_px)

\* the number of axis passes that have been completed and accumulated
PassesDone == IF epc \in {"after_axes", "exited"} THEN Len(axis) ELSE eloop.a - 1

\* C25: the combined buffers change only when a pass has written all its
\* rows: while pass k+1 is under way they hold the sum of the per-axis
\* volumes of the k completed passes, each counted once, and each pass
\* starts from a zero per-axis volume.
C25_CombinedIsSumOfPasses ==
    epc \in {"axis", "row", "axis_end", "after_axes", "exited", "ValueError"} =>
        /\ \A vox \in Voxels(cfg.lr_shape) :
               combined[vox] =
                   SeqSum([k \in 1..PassesDone |-> PassValue(axis[k], vox)])
        /\ (epc = "row" /\ eloop.rows = <<>>) => volume = ZeroVolume(cfg.lr_shape)

C25_Witness ==
    /\ epc = "after_axes" /\ cfg.net.kind = "varying" /\ cfg.v_frames = "same"
    /\ cfg.venc = 1 /\ cfg.velocity_per_px = 1
    /\ combined[<<1, 0, 0, 0, 0>>] = 12
    /\ volume[<<1, 0, 0, 0, 0>>] = 6

(***************************************************************************)
(* Claims about the patch sampler and stitcher.                            *)
(***************************************************************************)
Grid == <<pgen.nr_x, pgen.nr_y, pgen.nr_z>>
Patchified == ppc \in {"predict", "patchup", "done"}

\* C12: patchify followed by the stitcher with the same grid and identity
\* patches gives back the frame: every voxel of the stitched volume holds
\* the frame's value (an 8 x 8 x 8 block with patch size 4 and no overlap is
\* cut into 8 patches and returned unchanged).
C12_RoundTrip ==
    (ppc = "done" /\ frame.net = "identity") =>
        /\ DOMAIN v_patchup = FrameVoxels(frame.shape)
        /\ \A vox \in FrameVoxels(frame.shape) :
              RatEq(v_patchup[vox], FrameValue(vox), 1)

\* the 8 x 8 x 8 block: 8 patches, stitched back voxel by voxel
C12_Witness ==
    /\ ppc = "done" /\ frame.net = "identity"
    /\ frame.shape = <<8, 8, 8>> /\ frame.P = 4 /\ frame.o = 0
    /\ Len(velocities) = 8 /\ Len(results) = 8
    /\ \A vox \in FrameVoxels(frame.shape) : v_patchup[vox] = <<FrameValue(vox), 1>>

C13_PatchGrid ==
    /\ Patchified =>
          /\ \A a \in 1..3 :
                /\ Grid[a] * (frame.P - frame.o) >= frame.shape[a] - frame.o
                /\ (Grid[a] - 1) * (frame.P - frame.o) < frame.shape[a] - frame.o
          /\ Len(velocities) = pgen.nr_x * pgen.nr_y * pgen.nr_z
          /\ \A n \in 1..Len(velocities) : \A a \in 1..3 :
                velocities[n].grid[a] \in 0..(Grid[a] - 1)
          /\ \A n, m \in 1..Len(velocities) :
                velocities[n].grid = velocities[m].grid => n = m
    /\ ppc \in {"patchup", "done"} => Len(results) = Len(velocities)
    /\ ppc = "done" => pgen.passed = Grid

\* a frame with a different number of patches along each axis, with overlap
C13_Witness ==
    /\ ppc = "done" /\ frame.shape = <<2, 3, 4>> /\ frame.P = 2 /\ frame.o = 1
    /\ Grid = <<1, 2, 3>> /\ Len(velocities) = 6 /\ pgen.passed = <<1, 2, 3>>

\* C14: every voxel of the frame lies in at least one patch and every patch
\* lies inside the frame.
C14_Coverage ==
    Patchified =>
        /\ \A n \in 1..Len(velocities) : \A a \in 1..3 :
              /\ velocities[n].origin[a] >= 0
              /\ velocities[n].origin[a] + frame.P <= frame.shape[a]
        /\ \A vox \in FrameVoxels(frame.shape) :
              \E n \in 1..Len(velocities) : Covers(velocities[n].origin, frame.P, vox)

\* a last patch shifted inward: it overlaps its neighbour along x by more
\* than the nominal overlap
C14_Witness ==
    /\ Patchified /\ frame.shape[1] = 3 /\ frame.P = 2 /\ frame.o = 0
    /\ \E n, m \in 1..Len(velocities) :
          /\ velocities[n].grid[1] = 0 /\ velocities[m].grid[1] = 1
          /\ velocities[n].origin[1] = 0 /\ velocities[m].origin[1] = 1
          /\ velocities[n].origin[1] + frame.P - velocities[m].origin[1] > frame.o

\* the patches covering a voxel, by the origins they were cut at
Covering(vox) == {n \in 1..Len(velocities) : Covers(velocities[n].origin, frame.P, vox)}
\* the value patch n holds at voxel vox
PatchValueAt(n, vox) ==
    results[n][<<vox[1] - velocities[n].origin[1], vox[2] - velocities[n].origin[2],
                 vox[3] - velocities[n].origin[3]>>]
RECURSIVE SumValues(_, _)
SumValues(S, vox) ==
    IF S = {} THEN 0
    ELSE LET n == CHOOSE m \in S : TRUE
         IN PatchValueAt(n, vox) + SumValues(S \ {n}, vox)

\* C15: a stitched voxel covered by one patch holds that patch's value; a
\* voxel covered by k > 1 patches holds the sum of their values divided by k.
C15_UnweightedMean ==
    ppc = "done" =>
        \A vox \in FrameVoxels(frame.shape) :
            LET C == Covering(vox)
            IN /\ C # {}
               /\ RatEq(v_patchup[vox], SumValues(C, vox), Cardinality(C))
               /\ Cardinality(C) = 1 =>
                     \A n \in C : RatEq(v_patchup[vox], PatchValueAt(n, vox), 1)

\* a voxel covered by two patches that disagree: it holds their mean, which
\* is neither patch's value; another voxel is covered once
C15_Witness ==
    /\ ppc = "done" /\ frame.net = "shifted"
    /\ \E vox \in FrameVoxels(frame.shape) :
          /\ Cardinality(Covering(vox)) = 2
          /\ \E n, m \in Covering(vox) :
                /\ PatchValueAt(n, vox) # PatchValueAt(m, vox)
                /\ v_patchup[vox] = <<PatchValueAt(n, vox) + PatchValueAt(m, vox), 2>>
    /\ \E vox \in FrameVoxels(frame.shape) :
          /\ Cardinality(Covering(vox)) = 1
          /\ \A n \in Covering(vox) : v_patchup[vox] = <<PatchValueAt(n, vox), 1>>

(***************************************************************************)
(* Claims about the error metrics.                                         *)
(***************************************************************************)
\* C16: in the relative-error computation a voxel outside the mask
\* contributes 0, a masked voxel whose reference speed is exactly zero
\* contributes its absolute error diff_speed, a masked voxel with non-zero
\* reference speed contributes a relative error within [0, 1] (for
\* calculate_relative_error_np the quotient diff_speed / (actual_speed +
\* epsilon) clipped at 1, to the rounding precision), and the mean of a frame
\* is 100 times the sum of its contributions divided by (mask count + 1), a
\* divisor that is never zero.
C16_RelativeError ==
    mres.kind = "array" =>
        \A t \in 1..mcall.T :
            LET msk == MaskFrame(mcall, t)
            IN /\ \A k \in 1..mcall.N :
                    LET d == DiffSpeed(mcall.vel[t][k])
                        a == ActualSpeed(mcall.vel[t][k])
                        loss == mres.loss[t][k]
                    IN /\ msk[k] # 1 => loss = 0
                       /\ (msk[k] = 1 /\ a = 0) => loss = d * multiplier
                       /\ (msk[k] = 1 /\ a # 0) =>
                             /\ 0 <= loss /\ loss <= multiplier
                             /\ d = 0 => loss = 0
                             /\ d > 0 => loss > 0
                             /\ (mcall.fn = "relative_error_np" /\ d > a) => loss = multiplier
                             /\ (mcall.fn = "relative_error_np" /\ d <= a) =>
                                   2 * Abs(loss * (a * epsilon_inv + 1)
                                           - d * multiplier * epsilon_inv)
                                       <= a * epsilon_inv + 1
               /\ mres.mean_err[t][2] = multiplier * (SeqSum(msk) + 1)
               /\ mres.mean_err[t][2] > 0
               /\ mres.mean_err[t][1] = 100 * SeqSum(mres.loss[t])

\* a frame holding a masked voxel of zero reference speed and absolute error
\* 3 (more than any relative error), a masked voxel with relative error 1/2
\* and a frame whose mask is empty, whose mean is 0 / 1
C16_Witness ==
    /\ mres.kind = "array" /\ mcall.fn = "relative_error_np" /\ mcall.T = 2 /\ mcall.N = 2
    /\ mcall.vel[1] = <<<<3, 0>>, <<1, 2>>>> /\ mcall.mask = <<<<1, 1>>>>
    /\ mres.loss[1] = <<3 * multiplier, 5000>>
    /\ mres.mean_err[1] = <<100 * (3 * multiplier + 5000), 3 * multiplier>>

\* (the normalised metric on a time-varying mask with an empty frame)
C16_EmptyMaskFrame ==
    /\ mres.kind = "array" /\ mcall.fn = "relative_error_normalized" /\ mcall.mask_ndim = 4
    /\ \E t \in 1..mcall.T :
          /\ SeqSum(mcall.mask[t]) = 0
          /\ \E k \in 1..mcall.N : DiffSpeed(mcall.vel[t][k]) > 0
          /\ mres.mean_err[t] = <<0, multiplier>>

\* C27: whenever calculate_rmse, calculate_relative_error_normalized,
\* calculate_pointwise_error, calculate_mean_speed or get_fluid_region_points
\* takes its mask for static because the squeezed mask has rank 3, the
\* rank-3 assertion of create_temporal_mask holds for the mask it passes,
\* a static mask stored as (1, X, Y, Z) included.
C27_StaticMaskAccepted ==
    (mres.kind # "none" /\ SqueezedRank(mcall) = 3
        /\ mcall.fn \in MaskedRoutines \cup {"relative_error_normalized"}) =>
        /\ mres.kind # "AssertionError"
        /\ \A t \in 1..mcall.T : MaskFrame(mcall, t) = mcall.mask[1]

(***************************************************************************)
(* Claims about the HDF5 helpers and the downsampling script.              *)
(***************************************************************************)
Programme == ran \o todo
LastCall == ran[Len(ran)]
Listed(lst) == {lst[k] : k \in 1..Len(lst)}

\* C8: when the output path exists before the run, the run stops before any
\* work and the existing file is never modified (here: by the __main__ of
\* temporal_downsampling.py, whose output path is smooth_file_lr).
C8_ExistingOutputUntouched ==
    (Programme = Main /\ fs0["smooth_file_lr"].exists) =>
        fs["smooth_file_lr"] = fs0["smooth_file_lr"]

\* C9: after merge_data_to_h5(target, source) every key of target keeps its
\* dataset, every key of source absent from target is added with the source's
\* data (float64 stored as float32, other dtypes kept), no other key appears
\* or disappears, and source is unchanged.
C9_MergeFrame ==
    (ran # <<>> /\ LastCall.op = "merge" /\ pre[LastCall.from].exists) =>
        LET before == OpenAppend(pre[LastCall.file]).data
            src == pre[LastCall.from].data
            after == fs[LastCall.file].data
        IN /\ status = "running"
           /\ DOMAIN after = (DOMAIN before) \cup (DOMAIN src)
           /\ \A k \in DOMAIN before : after[k] = before[k]
           /\ \A k \in (DOMAIN src) \ (DOMAIN before) :
                 IF src[k].dtype = "float64"
                 THEN after[k] = [dtype |-> "float32", data |-> ToFloat32(src[k].data)]
                 ELSE after[k] = src[k]
           /\ fs[LastCall.from] = pre[LastCall.from]

\* a merge whose target holds a key the source holds with other data, and
\* whose source brings a float64 dataset the target lacks
C9_Witness ==
    /\ ran # <<>> /\ LastCall.op = "merge" /\ pre[LastCall.from].exists
    /\ LET before == OpenAppend(pre[LastCall.file]).data
           src == pre[LastCall.from].data
           after == fs[LastCall.file].data
       IN /\ \E k \in (DOMAIN before) \cap (DOMAIN src) :
                 before[k] # src[k] /\ after[k] = before[k]
          /\ \E k \in (DOMAIN src) \ (DOMAIN before) :
                 /\ src[k].dtype = "float64"
                 /\ after[k].dtype = "float32" /\ after[k].data # src[k].data

\* C10: after delete_data_from_h5(file, keys) every listed key is absent,
\* every other key is present with unchanged data, a listed key that was not
\* present causes no error and no change; and a merge that follows restores
\* exactly those deleted keys that the source contains.
C10_DeleteFrame ==
    /\ (ran # <<>> /\ LastCall.op = "delete") =>
          LET before == OpenAppend(pre[LastCall.file]).data
              after == fs[LastCall.file].data
          IN /\ status = "running"
             /\ DOMAIN after = (DOMAIN before) \ Listed(LastCall.lst)
             /\ \A k \in DOMAIN after : after[k] = before[k]
             /\ \A p \in Paths \ {LastCall.file} : fs[p] = pre[p]
    /\ (Len(ran) >= 2 /\ ran[1].op = "delete" /\ ran[2].op = "merge"
           /\ fs0[ran[2].from].exists) =>
          LET first == OpenAppend(fs0[ran[1].file]).data
              src == fs0[ran[2].from].data
              after == fs[ran[1].file].data
          IN \A k \in (DOMAIN first) \cap Listed(ran[1].lst) :
                /\ k \in DOMAIN after <=> k \in DOMAIN src
                /\ k \in DOMAIN after => after[k] = Converted(src[k])

\* the script's delete and merge: one deleted key comes back from the source,
\* one does not, one listed key was never there, one unlisted key is kept
C10_Witness ==
    /\ Len(ran) >= 2 /\ ran[1] = DeleteCall("smooth_file_lr", keys) /\ ran[2].op = "merge"
    /\ status = "running"
    /\ KeysOf(fs0["smooth_file_lr"]) = {"u", "mag_u", "mask"}
    /\ KeysOf(fs0["hr_file"]) = {"mag_u"}
    /\ KeysOf(fs["smooth_file_lr"]) = {"u", "mag_u"}
    /\ fs["smooth_file_lr"].data["u"] = fs0["smooth_file_lr"].data["u"]

====
